---- MODULE Spec2Model ----
(***************************************************************************)
(* Hardware-Store-AI-Assistant: the sliding-window rate limiter            *)
(* (backend/app/utils/security.py) and the tiered Redis cache client with  *)
(* the search pipeline in front of it (backend/app/utils/redis_client.py,  *)
(* routers/search.py, services/embeddings.py, services/qdrant.py), and the *)
(* HTTP layer that calls the limiter (middleware/security_middleware.py,   *)
(* the auth guards of utils/security.py, routers/security.py).             *)
(*                                                                         *)
(* Time is counted in whole seconds; calls arriving within the same second *)
(* read the same clock value.                                              *)
(***************************************************************************)
EXTENDS Integers, Sequences, FiniteSets, TLC

\* ------------------------------------------------------------------------
\* Bounds of the model
\* ------------------------------------------------------------------------
MaxTime == 61
TickSteps == {30, 31}

\* RATE_LIMIT_DEFAULT / RATE_LIMIT_USER / RATE_LIMIT_ADMIN (environment)
default_requests_per_minute == 2
user_requests_per_minute == 3
admin_requests_per_minute == 4

Identifiers == {"10.0.0.1", "10.0.0.2"}
\* key_type: Optional[str]; "none" stands for Python's None
KeyTypes == {"none", "user", "admin"}
NoCall == "no-call"
Threads == {"t1", "t2"}
Free == "free"
Idle == [pc |-> "idle"]

\* ------------------------------------------------------------------------
\* Program constants
\* ------------------------------------------------------------------------
\* window_start = current_time - 60
WINDOW == 60
\* default ttl of set_embedding, set_search_results, set_vector_skus
EMBEDDING_TTL == 3600
SEARCH_TTL == 1800
VECTOR_TTL == 900
\* _make_key: identifiers longer than this are replaced by their digest
MAX_RAW_KEY == 100

VARIABLES
    now,        \* time.time(), in seconds
    requests,   \* RateLimiter._requests : identifier -> deque of timestamps
    last,       \* outcome of the most recent is_allowed call (observer)
    admitted,   \* per identifier, the timestamps of every admitted call (observer)
    klass,      \* per identifier, the caller class its requests are checked with
                \* (for a caller of the HTTP layer: the X-API-Key header it sends)
    lastReject, \* per identifier, the time of its latest rejected call, or -1 (observer)
    solo,       \* per identifier, a private limiter fed only its own calls (observer)
    lock,       \* RateLimiter._lock : the thread holding it, or Free
    threads,    \* per request thread, its position in is_allowed and its locals
    connected,  \* RedisClient.connected
    backend_up, \* whether the Redis server answers (environment)
    store,      \* the Redis keyspace: key -> [value, ttl]
    req,        \* the search request in flight: its position and locals
    done,       \* the response of the search request that finished last, if none is in flight (observer)
    op,         \* the latest direct call of a RedisClient method (observer)
    lost_logged \* number of "Redis connection lost" warnings logged (observer)

rlObs == <<last, admitted, lastReject, solo>>
rlVars == <<now, requests, last, admitted, klass, lastReject, solo, lock, threads>>
cacheVars == <<connected, backend_up, store, req, done, op, lost_logged>>
vars == <<now, requests, last, admitted, klass, lastReject, solo, lock, threads,
          connected, backend_up, store, req, done, op, lost_logged>>

\* ------------------------------------------------------------------------
\* RateLimiter
\* ------------------------------------------------------------------------
_get_rate_limit(key_type) ==
    IF key_type = "admin" THEN admin_requests_per_minute
    ELSE IF key_type = "user" THEN user_requests_per_minute
    ELSE default_requests_per_minute

\* variant: one deque shared by every identifier
Deque_shared(reqs, identifier) ==
    IF DOMAIN reqs # {} THEN reqs[CHOOSE k \in DOMAIN reqs : TRUE] ELSE <<>>

\* self._requests[identifier] on a defaultdict(lambda: deque())
Deque(reqs, identifier) ==
    IF identifier \in DOMAIN reqs THEN reqs[identifier] ELSE <<>>

\* the deque object of `identifier` after it was mutated in place
Put(reqs, identifier, q) ==
    [k \in (DOMAIN reqs) \cup {identifier} |-> IF k = identifier THEN q ELSE reqs[k]]

\* variant: the purge also drops the timestamp that is exactly 60 s old
RECURSIVE PurgeOld_inclusive(_, _)
PurgeOld_inclusive(q, window_start) ==
    IF q # <<>> /\ Head(q) <= window_start
    THEN PurgeOld_inclusive(Tail(q), window_start)
    ELSE q

\* while requests_queue and requests_queue[0] < window_start: popleft()
RECURSIVE PurgeOld(_, _)
PurgeOld(q, window_start) ==
    IF q # <<>> /\ Head(q) < window_start
    THEN PurgeOld(Tail(q), window_start)
    ELSE q

\* variant: the limit test lets one call too many through
is_allowed_offbyone(reqs, identifier, key_type, current_time) ==
    LET window_start == current_time - WINDOW
        rate_limit == _get_rate_limit(key_type)
        requests_queue == PurgeOld(Deque(reqs, identifier), window_start)
        current_requests == Len(requests_queue)
    IN  IF current_requests > rate_limit
        THEN LET oldest_request == IF requests_queue # <<>>
                                   THEN Head(requests_queue) ELSE current_time
             IN  [requests |-> Put(reqs, identifier, requests_queue),
                  allowed |-> FALSE,
                  info |-> [limit |-> rate_limit,
                            remaining |-> 0,
                            reset |-> oldest_request + WINDOW,
                            current |-> current_requests]]
        ELSE [requests |-> Put(reqs, identifier, Append(requests_queue, current_time)),
              allowed |-> TRUE,
              info |-> [limit |-> rate_limit,
                        remaining |-> rate_limit - current_requests - 1,
                        reset |-> current_time + WINDOW,
                        current |-> current_requests + 1]]

\* variant: a rejected call is recorded as well
is_allowed_recording(reqs, identifier, key_type, current_time) ==
    LET window_start == current_time - WINDOW
        rate_limit == _get_rate_limit(key_type)
        requests_queue == PurgeOld(Deque(reqs, identifier), window_start)
        current_requests == Len(requests_queue)
    IN  IF current_requests >= rate_limit
        THEN LET oldest_request == IF requests_queue # <<>>
                                   THEN Head(requests_queue) ELSE current_time
             IN  [requests |-> Put(reqs, identifier, Append(requests_queue, current_time)),
                  allowed |-> FALSE,
                  info |-> [limit |-> rate_limit,
                            remaining |-> 0,
                            reset |-> oldest_request + WINDOW,
                            current |-> current_requests]]
        ELSE [requests |-> Put(reqs, identifier, Append(requests_queue, current_time)),
              allowed |-> TRUE,
              info |-> [limit |-> rate_limit,
                        remaining |-> rate_limit - current_requests - 1,
                        reset |-> current_time + WINDOW,
                        current |-> current_requests + 1]]

is_allowed(reqs, identifier, key_type, current_time) ==
    LET window_start == current_time - WINDOW
        rate_limit == _get_rate_limit(key_type)
        requests_queue == PurgeOld(Deque(reqs, identifier), window_start)
        current_requests == Len(requests_queue)
    IN  IF current_requests >= rate_limit
        THEN LET oldest_request == IF requests_queue # <<>>
                                   THEN Head(requests_queue) ELSE current_time
             IN  [requests |-> Put(reqs, identifier, requests_queue),
                  allowed |-> FALSE,
                  info |-> [limit |-> rate_limit,
                            remaining |-> 0,
                            reset |-> oldest_request + WINDOW,
                            current |-> current_requests]]
        ELSE [requests |-> Put(reqs, identifier, Append(requests_queue, current_time)),
              allowed |-> TRUE,
              info |-> [limit |-> rate_limit,
                        remaining |-> rate_limit - current_requests - 1,
                        reset |-> current_time + WINDOW,
                        current |-> current_requests + 1]]

\* ------------------------------------------------------------------------
\* Observers (history of the calls; they do not influence the limiter)
\* ------------------------------------------------------------------------
\* number of timestamps of s inside the closed window [t - 60, t]; a window
\* holding the most timestamps can be taken to start at one of them
CountIn(s, t) == Len(SelectSeq(s, LAMBDA ts : ts >= t - WINDOW /\ ts <= t))

InWindow(s, t) == SelectSeq(s, LAMBDA ts : ts >= t - WINDOW)

InitObservers ==
    /\ last = [id |-> NoCall]
    /\ admitted = [i \in Identifiers |-> <<>>]
    /\ lastReject = [i \in Identifiers |-> -1]
    /\ solo = [i \in Identifiers |-> <<>>]

\* the limiter after RateLimiter.__init__
InitLimiter ==
    /\ now = 0
    /\ requests = <<>>
    /\ lock = Free
    /\ threads = [t \in Threads |-> Idle]
    /\ InitObservers

\* what an observer of the call is_allowed(identifier, key_type) at time t records
Observe(identifier, key_type, t, r) ==
    LET own == is_allowed([k \in {identifier} |-> solo[identifier]], identifier, key_type, t)
    IN  /\ last' = [id |-> identifier, key_type |-> key_type, time |-> t,
                    allowed |-> r.allowed, info |-> r.info,
                    preRequests |-> requests,
                    preQueue |-> Deque(requests, identifier),
                    preCount |-> CountIn(admitted[identifier], t),
                    preAdmitted |-> admitted[identifier],
                    preReject |-> lastReject[identifier],
                    soloAllowed |-> own.allowed, soloInfo |-> own.info]
        /\ admitted' = [admitted EXCEPT ![identifier] = IF r.allowed THEN Append(@, t) ELSE @]
        /\ lastReject' = [lastReject EXCEPT ![identifier] = IF r.allowed THEN @ ELSE t]
        /\ solo' = [solo EXCEPT ![identifier] = own.requests[identifier]]

\* ------------------------------------------------------------------------
\* Strings, digests and JSON
\* ------------------------------------------------------------------------
\* a query of 100 characters, and the same query with one more character
Query100 == "cordless hammer drill kit with two lithium batteries, one fast charger, a carry case and masonry bit"
LongQuery == Query100 \o "s"
\* hashlib.md5(LongQuery.encode()).hexdigest(): 32 characters, itself a text
HexQuery == "48387b0fca543a29138dfa2af8a72afa"

\* hashlib.md5(s.encode()).hexdigest(); the digests of the strings the model
\* hashes are the real ones, any other string gets a digest of its own
md5_hexdigest(s) ==
    CASE
         s = LongQuery -> HexQuery
      [] s = LongQuery \o "::1" -> "1ace5212ef8be222ef33d1df4a8810ec"
      [] s = LongQuery \o "::2" -> "9c167edebae2684326caa85f3df3b43b"
      [] s = LongQuery \o "::3" -> "b5fd38ee7cee954f100e8a0ee0a3d37c"
      [] s = "[1, 2]" -> "04cd0e0151f352e7fd414d694a604136"
      [] s = "[2, 1]" -> "6b8567cadaab3578a5bd1257da7db3b4"
      [] s = "[3, 3]" -> "5662d81ff33a7ef35659d23427763c7a"
      [] s = "[]" -> "d751713988987e9331980363e24189ce"
      [] s = Query100 \o "::1" -> "ee7b69d473f20900056bd671c07eda24"
      [] s = Query100 \o "::2" -> "3a5ddc58154a2bd21f1e470930876ca9"
      [] s = Query100 \o "::11" -> "c525b4f7de527ee85eac156fcab2cf01"
      [] s = LongQuery \o "::11" -> "e1cc9a7cbd9da7760fe43e28bf44c7c3"
      [] OTHER -> "md5(" \o s \o ")"

\* Python objects: a value together with its type
PyNone == [py |-> "None"]
PyBool(b) == [py |-> "bool", val |-> b]
PyInt(n) == [py |-> "int", val |-> n]
PyList(l) == [py |-> "list", val |-> l]
PyDict(d) == [py |-> "dict", val |-> d]

\* bool(o), as in `if result:`
Truthy(o) ==
    CASE o.py = "None" -> FALSE
      [] o.py = "bool" -> o.val
      [] o.py = "int" -> o.val # 0
      [] o.py = "list" -> o.val # <<>>
      [] OTHER -> TRUE

RECURSIVE JoinInts(_)
JoinInts(v) ==
    IF v = <<>> THEN ""
    ELSE IF Len(v) = 1 THEN ToString(v[1])
    ELSE ToString(v[1]) \o ", " \o JoinInts(Tail(v))

RECURSIVE JoinSkus(_)
JoinSkus(l) ==
    IF l = <<>> THEN ""
    ELSE IF Len(l) = 1 THEN "\"" \o l[1] \o "\""
    ELSE "\"" \o l[1] \o "\", " \o JoinSkus(Tail(l))

RECURSIVE JoinProducts(_)
JoinProducts(l) ==
    IF l = <<>> THEN ""
    ELSE IF Len(l) = 1 THEN "{\"sku\": \"" \o l[1].sku \o "\"}"
    ELSE "{\"sku\": \"" \o l[1].sku \o "\"}, " \o JoinProducts(Tail(l))

\* variant: the serialization sorts the elements of a vector (of up to two
\* elements)
json_dumps_sorted(type, v) ==
    CASE type = "vector" ->
            "[" \o JoinInts(IF Len(v) = 2 /\ v[1] > v[2] THEN <<v[2], v[1]>> ELSE v) \o "]"
      [] type = "skus" -> "[" \o JoinSkus(v) \o "]"
      [] type = "products" -> "[" \o JoinProducts(v) \o "]"

\* json.dumps of a float vector, of a list of SKUs, of a list of product rows
json_dumps(type, v) ==
    CASE type = "vector" -> "[" \o JoinInts(v) \o "]"
      [] type = "skus" -> "[" \o JoinSkus(v) \o "]"
      [] type = "products" -> "[" \o JoinProducts(v) \o "]"

\* ------------------------------------------------------------------------
\* Upstream services (deterministic): embedding provider, vector index,
\* relational store
\* ------------------------------------------------------------------------
Queries == {"saw", LongQuery, HexQuery}
\* the (query, limit) pairs of the search requests
Requests == {<<"saw", 1>>, <<"saw", 2>>, <<LongQuery, 1>>, <<HexQuery, 1>>}

\* text.replace("\n", " "), and ' ' for a blank text (get_embeddings)
Clean(text) ==
    CASE text = "" -> " "
      [] text = "claw\nhammer" -> "claw hammer"
      [] OTHER -> text

\* openai.embeddings.create(input=[text]) : the vector of a text
Embed(text) ==
    CASE text = "saw" -> <<1, 2>>
      [] text = LongQuery -> <<2, 1>>
      [] OTHER -> <<3, 3>>

\* the products collection, nearest first
Ranking(embedding) ==
    CASE embedding = <<1, 2>> -> <<"SKU2", "SKU1">>
      [] embedding = <<2, 1>> -> <<"SKU1", "SKU9">>
      [] OTHER -> <<>>

\* client.search(query_vector=embedding, limit=top_k), then the SKUs of the hits
qdrant_search(embedding, top_k) ==
    LET r == Ranking(embedding)
    IN  SubSeq(r, 1, IF top_k < Len(r) THEN top_k ELSE Len(r))

\* the rows of table products, ORDER BY sku
Catalogue == <<[sku |-> "SKU1"], [sku |-> "SKU2"]>>

get_products_by_skus(skus) ==
    IF skus = <<>> THEN <<>>
    ELSE SelectSeq(Catalogue, LAMBDA row : \E i \in 1..Len(skus) : skus[i] = row.sku)

\* the values each tier can hold
Universe(type) ==
    CASE type = "vector" -> {Embed(Clean(q)) : q \in Queries}
      [] type = "skus" -> {qdrant_search(Embed(Clean(q)), k) : q \in Queries, k \in 1..2}
      [] type = "products" ->
            {get_products_by_skus(qdrant_search(Embed(Clean(q)), k)) : q \in Queries, k \in 1..2}

\* json.loads: the value whose JSON text is s; raises on any other text
json_loads(type, s) ==
    IF \E v \in Universe(type) : json_dumps(type, v) = s
    THEN [raises |-> FALSE,
          value |-> PyList(CHOOSE v \in Universe(type) : json_dumps(type, v) = s)]
    ELSE [raises |-> TRUE, value |-> PyNone]

\* ------------------------------------------------------------------------
\* RedisClient
\* ------------------------------------------------------------------------
EmptyStore == [k \in {} |-> [value |-> "", ttl |-> 0]]

\* variant: every check made on a disconnected client logs the warning again
is_connected_flooding(conn, up) ==
    IF ~conn THEN [ret |-> FALSE, connected |-> FALSE, pings |-> 0, lost |-> TRUE, escaped |-> FALSE]
    ELSE IF up THEN [ret |-> TRUE, connected |-> TRUE, pings |-> 1, lost |-> FALSE, escaped |-> FALSE]
    ELSE [ret |-> FALSE, connected |-> FALSE, pings |-> 1, lost |-> TRUE, escaped |-> FALSE]

\* variant: a disconnected client pings again and reconnects
is_connected_reprobing(conn, up) ==
    IF up THEN [ret |-> TRUE, connected |-> TRUE, pings |-> 1, lost |-> FALSE, escaped |-> FALSE]
    ELSE [ret |-> FALSE, connected |-> FALSE, pings |-> 1, lost |-> conn, escaped |-> FALSE]

\* is_connected(): no ping when the flag is already false; a failed ping
\* clears the flag and logs "Redis connection lost"
is_connected(conn, up) ==
    IF ~conn THEN [ret |-> FALSE, connected |-> FALSE, pings |-> 0, lost |-> FALSE, escaped |-> FALSE]
    ELSE IF up THEN [ret |-> TRUE, connected |-> TRUE, pings |-> 1, lost |-> FALSE, escaped |-> FALSE]
    ELSE [ret |-> FALSE, connected |-> FALSE, pings |-> 1, lost |-> TRUE, escaped |-> FALSE]

\* variant: a command that raises clears the connected flag
_safe_execute_disconnecting(conn, up, st, f) ==
    LET p == is_connected(conn, up)
    IN  IF ~p.ret
        THEN [result |-> PyNone, connected |-> p.connected, store |-> st,
              pings |-> p.pings, ran |-> FALSE, escaped |-> p.escaped, lost |-> p.lost]
        ELSE IF f.raises
        THEN [result |-> PyNone, connected |-> FALSE, store |-> f.store,
              pings |-> p.pings, ran |-> TRUE, escaped |-> FALSE, lost |-> p.lost]
        ELSE [result |-> f.value, connected |-> p.connected, store |-> f.store,
              pings |-> p.pings, ran |-> TRUE, escaped |-> FALSE, lost |-> p.lost]

\* variant: no try/except around func
_safe_execute_unguarded(conn, up, st, f) ==
    LET p == is_connected(conn, up)
    IN  IF ~p.ret
        THEN [result |-> PyNone, connected |-> p.connected, store |-> st,
              pings |-> p.pings, ran |-> FALSE, escaped |-> p.escaped, lost |-> p.lost]
        ELSE [result |-> IF f.raises THEN PyNone ELSE f.value,
              connected |-> p.connected, store |-> f.store,
              pings |-> p.pings, ran |-> TRUE, escaped |-> f.raises, lost |-> p.lost]

\* _safe_execute(operation_name, func): f is what func() does when it is run
_safe_execute(conn, up, st, f) ==
    LET p == is_connected(conn, up)
    IN  IF ~p.ret
        THEN [result |-> PyNone, connected |-> p.connected, store |-> st,
              pings |-> p.pings, ran |-> FALSE, escaped |-> p.escaped, lost |-> p.lost]
        ELSE IF f.raises
        THEN [result |-> PyNone, connected |-> p.connected, store |-> f.store,
              pings |-> p.pings, ran |-> TRUE, escaped |-> FALSE, lost |-> p.lost]
        ELSE [result |-> f.value, connected |-> p.connected, store |-> f.store,
              pings |-> p.pings, ran |-> TRUE, escaped |-> FALSE, lost |-> p.lost]

_make_key(prefix, identifier) ==
    LET id == IF Len(identifier) > MAX_RAW_KEY THEN md5_hexdigest(identifier) ELSE identifier
    IN  "hsai:" \o prefix \o ":" \o id

\* variant: a value that does not parse is handed back as it is
_get_unparsed(st, prefix, identifier, type, fault) ==
    LET key == _make_key(prefix, identifier)
    IN  IF fault THEN [raises |-> TRUE, value |-> PyNone, store |-> st]
        ELSE IF key \in DOMAIN st /\ st[key].value # ""
        THEN LET l == json_loads(type, st[key].value)
             IN  [raises |-> FALSE,
                  value |-> IF l.raises THEN [py |-> "str", val |-> st[key].value] ELSE l.value,
                  store |-> st]
        ELSE [raises |-> FALSE, value |-> PyNone, store |-> st]

\* the closures _get: GET key, then json.loads when a value came back;
\* fault: the command raises (timeout, connection reset, ...)
_get(st, prefix, identifier, type, fault) ==
    LET key == _make_key(prefix, identifier)
    IN  IF fault THEN [raises |-> TRUE, value |-> PyNone, store |-> st]
        ELSE IF key \in DOMAIN st /\ st[key].value # ""
        THEN LET l == json_loads(type, st[key].value)
             IN  [raises |-> l.raises, value |-> l.value, store |-> st]
        ELSE [raises |-> FALSE, value |-> PyNone, store |-> st]

\* the closures _set: SETEX key ttl json.dumps(value)
_set(st, prefix, identifier, type, v, ttl, fault) ==
    LET key == _make_key(prefix, identifier)
        value == json_dumps(type, v)
    IN  IF fault THEN [raises |-> TRUE, value |-> PyNone, store |-> st]
        ELSE [raises |-> FALSE, value |-> PyBool(TRUE),
              store |-> [k \in (DOMAIN st) \cup {key} |->
                            IF k = key THEN [value |-> value, ttl |-> ttl] ELSE st[k]]]

\* variant: the compound identifier without its delimiter
cache_key_undelimited(component, top_k) == component \o ToString(top_k)

\* cache_key = f"{query}::{top_k}", f"{embedding_hash}::{top_k}"
cache_key(component, top_k) == component \o "::" \o ToString(top_k)

get_embedding(conn, up, st, text, fault) ==
    _safe_execute(conn, up, st, _get(st, "embedding", text, "vector", fault))

set_embedding(conn, up, st, text, embedding, fault) ==
    _safe_execute(conn, up, st,
                  _set(st, "embedding", text, "vector", embedding, EMBEDDING_TTL, fault))

\* variant: the lookup leaves the limit out of the identifier
get_search_results_nolimit(conn, up, st, query, top_k, fault) ==
    _safe_execute(conn, up, st, _get(st, "search", query, "products", fault))

get_search_results(conn, up, st, query, top_k, fault) ==
    _safe_execute(conn, up, st,
                  _get(st, "search", cache_key(query, top_k), "products", fault))

set_search_results(conn, up, st, query, results, top_k, fault) ==
    _safe_execute(conn, up, st,
                  _set(st, "search", cache_key(query, top_k), "products",
                       results, SEARCH_TTL, fault))

get_vector_skus(conn, up, st, embedding_hash, top_k, fault) ==
    _safe_execute(conn, up, st,
                  _get(st, "vector", cache_key(embedding_hash, top_k), "skus", fault))

\* variant: the SKU lists are kept as long as the embeddings
set_vector_skus_hourly(conn, up, st, embedding_hash, skus, top_k, fault) ==
    _safe_execute(conn, up, st,
                  _set(st, "vector", cache_key(embedding_hash, top_k), "skus",
                       skus, EMBEDDING_TTL, fault))

set_vector_skus(conn, up, st, embedding_hash, skus, top_k, fault) ==
    _safe_execute(conn, up, st,
                  _set(st, "vector", cache_key(embedding_hash, top_k), "skus",
                       skus, VECTOR_TTL, fault))

\* json.dumps(embedding, sort_keys=True), then md5
hash_embedding(embedding) == md5_hexdigest(json_dumps("vector", embedding))

StartsWith(str, prefix) ==
    Len(str) >= Len(prefix) /\ SubSeq(str, 1, Len(prefix)) = prefix

\* variant: the pattern is not part of the match
Keys_unscoped(st, pattern) == {k \in DOMAIN st : StartsWith(k, "hsai:")}

\* KEYS hsai:<pattern>:* (KEYS hsai:* without a pattern)
Keys(st, pattern) ==
    {k \in DOMAIN st : StartsWith(k, IF pattern # "" THEN "hsai:" \o pattern \o ":" ELSE "hsai:")}

\* clear_cache(pattern); pattern "" stands for None
clear_cache(conn, up, st, pattern, fault) ==
    LET keys == Keys(st, pattern)
        f == IF fault THEN [raises |-> TRUE, value |-> PyNone, store |-> st]
             ELSE [raises |-> FALSE, value |-> PyInt(Cardinality(keys)),
                   store |-> [k \in (DOMAIN st) \ keys |-> st[k]]]
    IN  _safe_execute(conn, up, st, f)

get_cache_stats(conn, up, st, fault) ==
    LET f == IF fault THEN [raises |-> TRUE, value |-> PyNone, store |-> st]
             ELSE [raises |-> FALSE,
                   value |-> PyDict([connected |-> TRUE,
                                     total_keys |-> Cardinality(DOMAIN st),
                                     embedding_cache_keys |-> Cardinality(Keys(st, "embedding")),
                                     search_cache_keys |-> Cardinality(Keys(st, "search")),
                                     vector_cache_keys |-> Cardinality(Keys(st, "vector"))]),
                   store |-> st]
    IN  _safe_execute(conn, up, st, f)

\* ------------------------------------------------------------------------
\* The cache client on its own: direct calls of its methods while the server
\* goes down and comes back and entries expire
\* ------------------------------------------------------------------------
NoOp == [name |-> "none"]
NoResponse == [query |-> "none"]
AtRest == [pc |-> "idle"]
Tiers == {"embedding", "search", "vector"}
ClientRequests == {<<"saw", 1>>, <<LongQuery, 1>>}

\* the cache variables of a client that is not used
CacheAtRest ==
    /\ connected = TRUE
    /\ backend_up = TRUE
    /\ store = EmptyStore
    /\ req = AtRest
    /\ done = NoResponse
    /\ op = NoOp
    /\ lost_logged = 0

\* RedisClient.__init__ / _connect: connected is the outcome of the first ping
InitClient ==
    /\ InitLimiter
    /\ klass = [i \in Identifiers |-> "none"]
    /\ backend_up \in BOOLEAN
    /\ connected = backend_up
    /\ store = EmptyStore
    /\ req = AtRest
    /\ done = NoResponse
    /\ op = NoOp
    /\ lost_logged = 0

\* the key a direct call for (tier, q, k) works on
ClientKey(tier, q, k) ==
    CASE tier = "embedding" -> _make_key("embedding", q)
      [] tier = "search" -> _make_key("search", cache_key(q, k))
      [] tier = "vector" -> _make_key("vector", cache_key(hash_embedding(Embed(Clean(q))), k))

\* the value the callers store for (tier, q, k)
ClientValue(tier, q, k) ==
    CASE tier = "embedding" -> Embed(Clean(q))
      [] tier = "search" -> get_products_by_skus(qdrant_search(Embed(Clean(q)), k))
      [] tier = "vector" -> qdrant_search(Embed(Clean(q)), k)

NoCallArgs == [q |-> "", k |-> 0, key |-> "", value |-> PyNone]
NoEntry == [value |-> "", ttl |-> 0]
EntryAt(st, key) == IF key \in DOMAIN st THEN st[key] ELSE NoEntry

\* the latest call stored the value of `call` under its key, or read it there
Wrote(call) ==
    /\ op.name = "set"
    /\ op.key = call.key
    /\ op.ran
    /\ ~op.fault

Hit(call) ==
    /\ op.name = "get"
    /\ op.key = call.key
    /\ Truthy(op.result)

\* what the observer records of a call: the client and the server as the
\* call found them, its outcome, the entry under its key before (pre) and
\* after (stored), the keys a clear removed (gone) and left, the time since
\* the set of the same key when that was the call before (after_set, else
\* -1), and whether the call before was a get that found the key (after_hit)
Observed(name, tier, call, fault, r) ==
    op' = [name |-> name, tier |-> tier, conn0 |-> connected, up |-> backend_up,
           fault |-> fault, result |-> r.result, escaped |-> r.escaped,
           pings |-> r.pings, ran |-> r.ran, storeSame |-> r.store = store,
           q |-> call.q, k |-> call.k, key |-> call.key, value |-> call.value,
           pre |-> IF name = "get" THEN EntryAt(store, call.key).value ELSE "",
           stored |-> IF name = "set" THEN EntryAt(r.store, call.key) ELSE NoEntry,
           gone |-> IF name = "clear" THEN (DOMAIN store) \ (DOMAIN r.store) ELSE {},
           left |-> IF name = "clear" THEN DOMAIN r.store ELSE {},
           keptSame |-> \A key \in DOMAIN r.store :
                            key \in DOMAIN store /\ (name = "clear" => r.store[key] = store[key]),
           after_set |-> IF name = "get" /\ Wrote(call) THEN op.since ELSE -1,
           after_hit |-> name = "get" /\ Hit(call),
           since |-> 0]

Applied(name, tier, call, fault, r) ==
    /\ connected' = r.connected
    /\ store' = r.store
    /\ lost_logged' = lost_logged + (IF r.lost THEN 1 ELSE 0)
    /\ Observed(name, tier, call, fault, r)
    /\ UNCHANGED <<rlVars, backend_up, req, done>>

ClientGet(tier, q, k, fault) ==
    LET embedding == Embed(Clean(q))
        r == CASE tier = "embedding" -> get_embedding(connected, backend_up, store, q, fault)
               [] tier = "search" -> get_search_results(connected, backend_up, store, q, k, fault)
               [] tier = "vector" -> get_vector_skus(connected, backend_up, store,
                                                     hash_embedding(embedding), k, fault)
    IN  Applied("get", tier,
                [q |-> q, k |-> k, key |-> ClientKey(tier, q, k), value |-> PyNone], fault, r)

\* the callers store the value they computed for the key
ClientSet(tier, q, k, fault) ==
    LET embedding == Embed(Clean(q))
        skus == qdrant_search(embedding, k)
        r == CASE tier = "embedding" ->
                    set_embedding(connected, backend_up, store, q, embedding, fault)
               [] tier = "search" ->
                    set_search_results(connected, backend_up, store, q,
                                       get_products_by_skus(skus), k, fault)
               [] tier = "vector" ->
                    set_vector_skus(connected, backend_up, store,
                                    hash_embedding(embedding), skus, k, fault)
    IN  Applied("set", tier,
                [q |-> q, k |-> k, key |-> ClientKey(tier, q, k),
                 value |-> PyList(ClientValue(tier, q, k))], fault, r)

ClientClear(pattern, fault) ==
    Applied("clear", pattern, NoCallArgs, fault,
            clear_cache(connected, backend_up, store, pattern, fault))

ClientStats(fault) ==
    Applied("stats", "", NoCallArgs, fault, get_cache_stats(connected, backend_up, store, fault))

BackendDown ==
    /\ backend_up
    /\ backend_up' = FALSE
    /\ UNCHANGED <<rlVars, connected, store, req, done, op, lost_logged>>

BackendUp ==
    /\ ~backend_up
    /\ backend_up' = TRUE
    /\ UNCHANGED <<rlVars, connected, store, req, done, op, lost_logged>>

\* the TTL of an entry runs out (or the server evicts it)
Expire(key) ==
    /\ key \in DOMAIN store
    /\ store' = [k \in (DOMAIN store) \ {key} |-> store[k]]
    /\ UNCHANGED <<rlVars, connected, backend_up, req, done, op, lost_logged>>

NextClient ==
    \/ \E tier \in Tiers, r \in ClientRequests, fault \in BOOLEAN :
            ClientGet(tier, r[1], r[2], fault)
    \/ \E tier \in Tiers, r \in ClientRequests, fault \in BOOLEAN :
            ClientSet(tier, r[1], r[2], fault)
    \/ \E pattern \in Tiers \cup {""}, fault \in BOOLEAN : ClientClear(pattern, fault)
    \/ \E fault \in BOOLEAN : ClientStats(fault)
    \/ BackendDown
    \/ BackendUp
    \/ \E key \in DOMAIN store : Expire(key)

SpecClient == InitClient /\ [][NextClient]_vars

\* ------------------------------------------------------------------------
\* The search pipeline: POST /search, one request at a time, each step up to
\* its next call of the cache server
\* ------------------------------------------------------------------------
\* a cache operation that is not called
NotCalled(st) ==
    [result |-> PyNone, connected |-> TRUE, store |-> st,
     pings |-> 0, ran |-> FALSE, escaped |-> FALSE, lost |-> FALSE]

\* `if redis_client.is_connected(): <r>` : r is the cache operation run on a
\* connected client
Guarded(conn, up, st, r) ==
    LET p == is_connected(conn, up)
    IN  IF p.ret THEN [r EXCEPT !.pings = @ + p.pings]
        ELSE [NotCalled(st) EXCEPT !.connected = p.connected, !.pings = p.pings,
                                   !.escaped = p.escaped, !.lost = p.lost]

\* the cache server as the step finds it: up, and (stays) whether it is still
\* up at the second ping of the step
Effect(g) ==
    /\ connected' = g.connected
    /\ store' = g.store
    /\ lost_logged' = lost_logged + (IF g.lost THEN 1 ELSE 0)
    /\ UNCHANGED <<rlVars, backend_up, op>>

Respond(query, top_k, results, escaped, computed, kept) ==
    /\ done' = [query |-> query, top_k |-> top_k, results |-> results,
                status |-> IF escaped THEN 500 ELSE 200,
                computed |-> computed, kept |-> kept]
    /\ req' = AtRest

\* the cache server answers throughout the step and its command succeeds
CacheOn(stays, fault) == connected /\ backend_up /\ stays /\ ~fault

\* a lookup that was answered found an entry under its key and yet missed
Ignored(g, key, stays, fault) ==
    CacheOn(stays, fault) /\ EntryAt(store, key).value # "" /\ ~Truthy(g.result)

\* after a write-back that the cache server answered, the key holds the value
Kept(g, key, type, v, stays, fault) ==
    CacheOn(stays, fault) => EntryAt(g.store, key).value = json_dumps(type, v)

\* search.py 26-41: look the whole answer up
search_products(query, top_k, stays, fault) ==
    LET g == Guarded(connected, backend_up, store,
                     get_search_results(TRUE, backend_up /\ stays, store, query, top_k, fault))
    IN  /\ Effect(g)
        /\ IF Truthy(g.result) \/ g.escaped
           THEN Respond(query, top_k, IF g.escaped THEN <<>> ELSE g.result.val, g.escaped,
                        FALSE, TRUE)
           ELSE /\ req' = [pc |-> "get_embedding", query |-> query, top_k |-> top_k,
                           ignored |-> Ignored(g, _make_key("search", cache_key(query, top_k)),
                                               stays, fault)]
                /\ done' = NoResponse

\* a search request arrives while none is in flight
SearchProducts(query, top_k, stays, fault) ==
    /\ req.pc = "idle"
    /\ search_products(query, top_k, stays, fault)

\* embeddings.py 78-82: get_embedding looks the query up
GetEmbedding(stays, fault) ==
    /\ req.pc = "get_embedding"
    /\ LET key == _make_key("embedding", req.query)
           g == Guarded(connected, backend_up, store,
                        get_embedding(TRUE, backend_up /\ stays, store, req.query, fault))
       IN  /\ Effect(g)
           /\ req' = IF Truthy(g.result)
                     THEN [pc |-> "search_in_qdrant", query |-> req.query, top_k |-> req.top_k,
                           embedding |-> g.result.val, kept |-> TRUE]
                     ELSE [pc |-> "get_embeddings", query |-> req.query, top_k |-> req.top_k,
                           ignored |-> Ignored(g, key, stays, fault)]
           /\ UNCHANGED done

\* embeddings.py 25-43: get_embeddings([query]) looks the cleaned text up
GetEmbeddings(stays, fault) ==
    /\ req.pc = "get_embeddings"
    /\ LET g == Guarded(connected, backend_up, store,
                        get_embedding(TRUE, backend_up /\ stays, store, Clean(req.query), fault))
       IN  /\ Effect(g)
           /\ req' = IF Truthy(g.result)
                     THEN [pc |-> "cache_embedding", query |-> req.query, top_k |-> req.top_k,
                           embedding |-> g.result.val]
                     ELSE [pc |-> "provider", query |-> req.query, top_k |-> req.top_k]
           /\ UNCHANGED done

\* embeddings.py 46-62: ask the provider, store under the cleaned text
Provider(stays, fault) ==
    /\ req.pc = "provider"
    /\ LET embedding == Embed(Clean(req.query))
           g == Guarded(connected, backend_up, store,
                        set_embedding(TRUE, backend_up /\ stays, store, Clean(req.query),
                                      embedding, fault))
       IN  /\ Effect(g)
           /\ req' = [pc |-> "cache_embedding", query |-> req.query, top_k |-> req.top_k,
                      embedding |-> embedding]
           /\ UNCHANGED done

\* embeddings.py 86-92: get_embedding stores what get_embeddings returned
CacheEmbedding(stays, fault) ==
    /\ req.pc = "cache_embedding"
    /\ LET g == Guarded(connected, backend_up, store,
                        set_embedding(TRUE, backend_up /\ stays, store, req.query,
                                      req.embedding, fault))
       IN  /\ Effect(g)
           /\ req' = [pc |-> "search_in_qdrant", query |-> req.query, top_k |-> req.top_k,
                      embedding |-> req.embedding,
                      kept |-> Kept(g, _make_key("embedding", req.query), "vector",
                                    req.embedding, stays, fault)]
           /\ UNCHANGED done

\* qdrant.py 27-39: look the SKUs of the vector up; a hit hands on the list
\* and the entry it was read from
VectorLookup(stays, fault) ==
    /\ req.pc = "search_in_qdrant"
    /\ LET key == _make_key("vector", cache_key(hash_embedding(req.embedding), req.top_k))
           g == Guarded(connected, backend_up, store,
                        get_vector_skus(TRUE, backend_up /\ stays, store,
                                        hash_embedding(req.embedding), req.top_k, fault))
       IN  /\ Effect(g)
           /\ req' = IF Truthy(g.result)
                     THEN [pc |-> "hydrate", query |-> req.query, top_k |-> req.top_k,
                           skus |-> g.result.val, kept |-> TRUE,
                           entry |-> EntryAt(store, key).value]
                     ELSE [pc |-> "client_search", query |-> req.query, top_k |-> req.top_k,
                           embedding |-> req.embedding,
                           ignored |-> Ignored(g, key, stays, fault)]
           /\ UNCHANGED done

\* qdrant.py 49-81: search the index, store the SKUs
VectorSearch(stays, fault) ==
    /\ req.pc = "client_search"
    /\ LET skus == qdrant_search(req.embedding, req.top_k)
           key == _make_key("vector", cache_key(hash_embedding(req.embedding), req.top_k))
           g == Guarded(connected, backend_up, store,
                        set_vector_skus(TRUE, backend_up /\ stays, store,
                                        hash_embedding(req.embedding), skus, req.top_k, fault))
       IN  /\ Effect(g)
           /\ req' = [pc |-> "hydrate", query |-> req.query, top_k |-> req.top_k,
                      skus |-> skus, kept |-> Kept(g, key, "skus", skus, stays, fault),
                      entry |-> ""]
           /\ UNCHANGED done

\* variant: the answer is stored also when there are no rows
Hydrate_storing_empty(stays, fault) ==
    /\ req.pc = "hydrate"
    /\ LET products == get_products_by_skus(req.skus)
           key == _make_key("search", cache_key(req.query, req.top_k))
           g == Guarded(connected, backend_up, store,
                        set_search_results(TRUE, backend_up /\ stays, store, req.query,
                                           products, req.top_k, fault))
       IN  /\ Effect(g)
           /\ Respond(req.query, req.top_k, products, g.escaped, TRUE,
                      Kept(g, key, "products", products, stays, fault))

\* search.py 58-81: read the rows, store the answer when there are rows
Hydrate(stays, fault) ==
    /\ req.pc = "hydrate"
    /\ LET products == get_products_by_skus(req.skus)
           key == _make_key("search", cache_key(req.query, req.top_k))
           g == Guarded(connected, backend_up, store,
                        IF products # <<>>
                        THEN set_search_results(TRUE, backend_up /\ stays, store, req.query,
                                                products, req.top_k, fault)
                        ELSE NotCalled(store))
       IN  /\ Effect(g)
           /\ Respond(req.query, req.top_k, products, g.escaped, TRUE,
                      Kept(g, key, "products", products, stays, fault))

NextSearch ==
    \/ \E r \in Requests, stays, fault \in BOOLEAN : SearchProducts(r[1], r[2], stays, fault)
    \/ \E stays, fault \in BOOLEAN : GetEmbedding(stays, fault)
    \/ \E stays, fault \in BOOLEAN : GetEmbeddings(stays, fault)
    \/ \E stays, fault \in BOOLEAN : Provider(stays, fault)
    \/ \E stays, fault \in BOOLEAN : CacheEmbedding(stays, fault)
    \/ \E stays, fault \in BOOLEAN : VectorLookup(stays, fault)
    \/ \E stays, fault \in BOOLEAN : VectorSearch(stays, fault)
    \/ \E stays, fault \in BOOLEAN : Hydrate(stays, fault)
    \/ BackendDown
    \/ BackendUp
    \/ \E key \in DOMAIN store : Expire(key)

SpecSearch == InitClient /\ [][NextSearch]_vars

\* the pipeline with no cache at all
NoCacheSearch(query, top_k) ==
    get_products_by_skus(qdrant_search(Embed(Clean(query)), top_k))

\* ------------------------------------------------------------------------
\* Sequential use of the limiter: one call at a time, the clock moves between
\* calls
\* ------------------------------------------------------------------------
Init ==
    /\ InitLimiter
    /\ klass \in [Identifiers -> KeyTypes]
    /\ CacheAtRest

Tick(d) ==
    /\ now + d <= MaxTime
    /\ now' = now + d
    /\ UNCHANGED <<requests, klass, rlObs, lock, threads, cacheVars>>

Call(identifier, key_type) ==
    LET r == is_allowed(requests, identifier, key_type, now)
    IN  /\ requests' = r.requests
        /\ Observe(identifier, key_type, now, r)
        /\ UNCHANGED <<now, klass, lock, threads, cacheVars>>

Next ==
    \/ \E d \in TickSteps : Tick(d)
    \/ \E identifier \in Identifiers : Call(identifier, klass[identifier])

Spec == Init /\ [][Next]_vars

\* ------------------------------------------------------------------------
\* Concurrent use of the limiter: each request thread reads the clock
\* (current_time = time.time(), before the lock), then takes self._lock, then
\* runs the body of the with-block and releases the lock on return
\* ------------------------------------------------------------------------
Enter(t, identifier) ==
    /\ threads[t].pc = "idle"
    /\ threads' = [threads EXCEPT ![t] = [pc |-> "wait", identifier |-> identifier,
                                          key_type |-> klass[identifier],
                                          current_time |-> now]]
    /\ UNCHANGED <<now, requests, klass, rlObs, lock, cacheVars>>

Acquire(t) ==
    /\ threads[t].pc = "wait"
    /\ lock = Free
    /\ lock' = t
    /\ threads' = [threads EXCEPT ![t].pc = "locked"]
    /\ UNCHANGED <<now, requests, klass, rlObs, cacheVars>>

Critical(t) ==
    /\ threads[t].pc = "locked"
    /\ lock = t
    /\ LET me == threads[t]
           r == is_allowed(requests, me.identifier, me.key_type, me.current_time)
       IN  /\ requests' = r.requests
           /\ admitted' = [admitted EXCEPT ![me.identifier] =
                               IF r.allowed THEN Append(@, me.current_time) ELSE @]
    /\ lock' = Free
    /\ threads' = [threads EXCEPT ![t] = Idle]
    /\ UNCHANGED <<now, klass, last, lastReject, solo, cacheVars>>

NextConc ==
    \/ \E d \in TickSteps : Tick(d)
    \/ \E t \in Threads, identifier \in Identifiers : Enter(t, identifier)
    \/ \E t \in Threads : Acquire(t)
    \/ \E t \in Threads : Critical(t)

\* every identifier is checked with the same caller class
InitConc ==
    /\ Init
    /\ \A i, j \in Identifiers : klass[i] = klass[j]

SpecConc == InitConc /\ [][NextConc]_vars

\* ------------------------------------------------------------------------
\* Properties of the rate limiter
\* ------------------------------------------------------------------------
Quota(identifier) == _get_rate_limit(klass[identifier])

\* C1: for every identifier checked with a single caller class, no trailing
\* 60-second window ever holds more admitted or recorded timestamps than the
\* class's quota, and a call is admitted exactly when the number of in-window
\* timestamps before the call is below the quota.
C1_WindowNeverExceedsQuota ==
    /\ \A i \in Identifiers : \A j \in 1..Len(admitted[i]) :
          CountIn(admitted[i], admitted[i][j] + WINDOW) <= Quota(i)
    /\ \A i \in DOMAIN requests : CountIn(requests[i], now) <= Quota(i)
    /\ last.id # NoCall => (last.allowed <=> last.preCount < Quota(last.id))

\* a call was rejected with the window exactly full, its oldest timestamp
\* lying exactly 60 s back
C1_Witness ==
    /\ last.id # NoCall
    /\ ~last.allowed
    /\ last.preCount = Quota(last.id)
    /\ last.preQueue # <<>>
    /\ Head(last.preQueue) = last.time - WINDOW

\* C2: with quota N for the anonymous class, the first N calls of one identifier
\* within one second are admitted, the (N+1)th is rejected with remaining = 0,
\* and a call made at least 61 s after them is admitted again.
C2_BurstThenRecover ==
    (last.id # NoCall /\ last.key_type = "none") =>
        LET N == default_requests_per_minute
            h == last.preAdmitted
            k == Cardinality({i \in 1..Len(h) : h[i] = last.time})
            fresh == CountIn(h, last.time) = k
        IN  /\ (fresh /\ k < N) => (last.allowed /\ last.info.remaining = N - k - 1)
            /\ (fresh /\ k = N) => (~last.allowed /\ last.info.remaining = 0)
            /\ (\A i \in 1..Len(h) : h[i] + WINDOW + 1 <= last.time) => last.allowed

\* N calls admitted in one second, a further call in that second rejected, and
\* the call 61 s (or more) later admitted
C2_Witness ==
    /\ last.id # NoCall
    /\ last.key_type = "none"
    /\ last.allowed
    /\ Len(last.preAdmitted) = default_requests_per_minute
    /\ \A i \in 1..Len(last.preAdmitted) : last.preAdmitted[i] = last.preReject
    /\ last.time >= last.preReject + WINDOW + 1

\* C3: under every interleaving of concurrent is_allowed calls, the calls
\* admitted with timestamps inside any 60-second window number at most the quota.
C3_ConcurrentWindowQuota ==
    \A i \in Identifiers : \A j \in 1..Len(admitted[i]) :
        CountIn(admitted[i], admitted[i][j] + WINDOW) <= Quota(i)

\* C4: a rejected call leaves the identifier's in-window timestamps as they
\* were (only expired ones are dropped) and records nothing; an admitted call
\* appends exactly one timestamp, its own.
C4_RejectedRecordsNothing ==
    last.id # NoCall =>
        LET before == InWindow(last.preQueue, last.time)
            after == Deque(requests, last.id)
        IN  IF last.allowed
            THEN /\ after = Append(before, last.time)
                 /\ admitted[last.id] = Append(last.preAdmitted, last.time)
            ELSE /\ after = before
                 /\ admitted[last.id] = last.preAdmitted
                 /\ last.info.reset = Head(before) + WINDOW

\* a rejected call that follows an earlier rejected call of the same identifier
C4_Witness ==
    /\ last.id # NoCall
    /\ ~last.allowed
    /\ last.preReject >= 0
    /\ last.preReject < last.time
    /\ Deque(requests, last.id) = last.preQueue

\* C5: a call for one identifier leaves every other identifier's deque as it
\* was, and its outcome (admitted or rejected, and the rate info) is the one a
\* limiter that only ever saw this identifier's calls would give.
C5_QuotaIsolation ==
    /\ \A i \in Identifiers : Deque(requests, i) = solo[i]
    /\ last.id # NoCall =>
          /\ \A b \in Identifiers \ {last.id} :
                /\ Deque(requests, b) = Deque(last.preRequests, b)
                /\ (b \in DOMAIN requests) <=> (b \in DOMAIN last.preRequests)
          /\ last.allowed = last.soloAllowed
          /\ last.info = last.soloInfo

\* an identifier is admitted with its full quota left while another one has
\* used its quota up and has been rejected
C5_Witness ==
    /\ last.id # NoCall
    /\ last.allowed
    /\ last.info.remaining = Quota(last.id) - 1
    /\ \E a \in Identifiers \ {last.id} :
          /\ CountIn(Deque(requests, a), now) = Quota(a)
          /\ lastReject[a] = now

\* C20: when the latest call of an identifier before this one was rejected
\* (no call of the identifier was admitted since), and this call is made at
\* the reset that rejection reported (the oldest recorded timestamp + 60 s),
\* this call is admitted.
C20_AdmittedAtReset ==
    (/\ last.id # NoCall
     /\ last.preReject >= 0
     /\ \A j \in 1..Len(last.preAdmitted) : last.preAdmitted[j] <= last.preReject
     /\ last.preQueue # <<>>
     /\ last.time = Head(last.preQueue) + WINDOW)
        => last.allowed

\* ------------------------------------------------------------------------
\* Properties of the cache client
\* ------------------------------------------------------------------------
\* the call did not reach its command, or the command failed
Failed(o) == ~o.conn0 \/ ~o.up \/ o.fault

\* C6: get_embedding, get_search_results and get_vector_skus return None and
\* let no exception escape whenever the client is disconnected, the ping
\* fails or the command raises.
C6_GetNeverRaises ==
    (op.name = "get" /\ Failed(op)) => (op.result = PyNone /\ ~op.escaped)

\* a get whose ping succeeded and whose command raised
C6_Witness ==
    /\ op.name = "get"
    /\ op.conn0
    /\ op.up
    /\ op.fault
    /\ op.ran

\* C7: set_embedding, set_search_results and set_vector_skus return the
\* boolean False, and raise nothing, whenever the write does not happen.
C7_SetReturnsFalse ==
    (op.name = "set" /\ Failed(op)) => (op.result = PyBool(FALSE) /\ ~op.escaped)

\* C9: once a failed ping has cleared the connected flag, a cache operation
\* issued while the server is reachable again pings it and leaves the client
\* connected.
C9_Reconnects ==
    (op.name # "none" /\ lost_logged > 0 /\ op.up) => (connected /\ op.pings > 0)

\* C10: while the connected flag is false, every cache operation (get, set,
\* clear, stats) returns the sentinel None without sending anything to the
\* server and without changing an entry.
C10_DisconnectedShortCircuits ==
    (op.name # "none" /\ ~op.conn0) =>
        /\ op.result = PyNone
        /\ ~op.ran
        /\ op.pings = 0
        /\ op.storeSame
        /\ ~op.escaped
        /\ ~connected

\* a clear issued on a disconnected client while the server is up and holds
\* entries the command would have deleted
C10_Witness ==
    /\ op.name = "clear"
    /\ ~op.conn0
    /\ op.up
    /\ ~op.fault
    /\ Keys(store, op.tier) # {}

\* C8: whatever the cache holds and whenever the server goes away, a search
\* answers with the product list the pipeline without a cache computes, and
\* never with an error.
C8_CacheTransparent ==
    done.query # "none" =>
        /\ done.status = 200
        /\ done.results = NoCacheSearch(done.query, done.top_k)

\* ------------------------------------------------------------------------
\* The entries of one request while time passes: SETEX gives an entry its
\* time to live, the server drops the entry when that time has run out
\* ------------------------------------------------------------------------
MaxAge == 3600
ElapseSteps == {899, 900}
TimedRequests == {<<"saw", 1>>}

\* d seconds pass on the server
Elapse(d) ==
    /\ op.name # "none"
    /\ op.since + d <= MaxAge
    /\ store' = [key \in {x \in DOMAIN store : store[x].ttl > d} |->
                    [store[key] EXCEPT !.ttl = @ - d]]
    /\ op' = [op EXCEPT !.since = @ + d]
    /\ UNCHANGED <<rlVars, connected, backend_up, req, done, lost_logged>>

NextTimed ==
    \/ \E tier \in Tiers, r \in TimedRequests, fault \in BOOLEAN :
            ClientGet(tier, r[1], r[2], fault)
    \/ \E tier \in Tiers, r \in TimedRequests, fault \in BOOLEAN :
            ClientSet(tier, r[1], r[2], fault)
    \/ \E d \in ElapseSteps : Elapse(d)
    \/ BackendDown
    \/ BackendUp

SpecTimed == InitClient /\ [][NextTimed]_vars

\* ------------------------------------------------------------------------
\* The entries of one request when a stored value is damaged on the server
\* (truncated, overwritten by another writer, written by another version)
\* ------------------------------------------------------------------------
Garbage == "[1, 2"

Corrupt(key) ==
    /\ key \in DOMAIN store
    /\ store[key].value # Garbage
    /\ store' = [store EXCEPT ![key].value = Garbage]
    /\ UNCHANGED <<rlVars, connected, backend_up, req, done, op, lost_logged>>

NextCorrupt ==
    \/ \E tier \in Tiers, r \in TimedRequests, fault \in BOOLEAN :
            ClientGet(tier, r[1], r[2], fault)
    \/ \E tier \in Tiers, r \in TimedRequests, fault \in BOOLEAN :
            ClientSet(tier, r[1], r[2], fault)
    \/ \E key \in DOMAIN store : Corrupt(key)
    \/ \E key \in DOMAIN store : Expire(key)
    \/ BackendDown
    \/ BackendUp

SpecCorrupt == InitClient /\ [][NextCorrupt]_vars

\* ------------------------------------------------------------------------
\* Key derivation on its own: the key each tier derives for a text or a
\* vector and a limit, one derivation after another
\* ------------------------------------------------------------------------
KeyTexts == {"", "saw", "saw1", "saw::1", Query100, LongQuery, HexQuery}
KeyVectors == {<<>>, <<1, 2>>, <<2, 1>>, <<3, 3>>}
KeyLimits == {1, 2, 11}

\* the derivation before this one
Before == IF op.name = "key" THEN [op EXCEPT !.prev = NoOp] ELSE NoOp

\* get_embedding / set_embedding: key of a text
EmbeddingKey(text) ==
    /\ op' = [name |-> "key", tier |-> "embedding", text |-> text, vector |-> <<>>,
              top_k |-> 0, serial |-> "", hash |-> "", identifier |-> text,
              key |-> _make_key("embedding", text), prev |-> Before]
    /\ UNCHANGED <<rlVars, connected, backend_up, store, req, done, lost_logged>>

\* get_search_results / set_search_results: key of a query and a limit
SearchKey(query, top_k) ==
    /\ op' = [name |-> "key", tier |-> "search", text |-> query, vector |-> <<>>,
              top_k |-> top_k, serial |-> "", hash |-> "",
              identifier |-> cache_key(query, top_k),
              key |-> _make_key("search", cache_key(query, top_k)), prev |-> Before]
    /\ UNCHANGED <<rlVars, connected, backend_up, store, req, done, lost_logged>>

\* hash_embedding, then get_vector_skus / set_vector_skus: key of a vector
\* and a limit
VectorKey(embedding, top_k) ==
    LET embedding_hash == hash_embedding(embedding)
    IN  /\ op' = [name |-> "key", tier |-> "vector", text |-> "", vector |-> embedding,
                  top_k |-> top_k, serial |-> json_dumps("vector", embedding),
                  hash |-> embedding_hash,
                  identifier |-> cache_key(embedding_hash, top_k),
                  key |-> _make_key("vector", cache_key(embedding_hash, top_k)),
                  prev |-> Before]
        /\ UNCHANGED <<rlVars, connected, backend_up, store, req, done, lost_logged>>

NextKeys ==
    \/ \E text \in KeyTexts : EmbeddingKey(text)
    \/ \E query \in KeyTexts, top_k \in KeyLimits : SearchKey(query, top_k)
    \/ \E embedding \in KeyVectors, top_k \in KeyLimits : VectorKey(embedding, top_k)

SpecKeys == InitClient /\ [][NextKeys]_vars

\* ------------------------------------------------------------------------
\* Properties of key derivation
\* ------------------------------------------------------------------------
\* the identifying payload of a text: the text itself up to 100 characters,
\* its digest beyond
Payload(text) == IF Len(text) <= MAX_RAW_KEY THEN text ELSE md5_hexdigest(text)

\* C14: in every tier the identifying part of the key is the caller's raw
\* text when the text has at most 100 characters (exactly 100 included) and
\* the digest of the text when it is longer; in the compound tiers the limit
\* follows it after the delimiter.
C14_RawUpToThreshold ==
    op.name = "key" =>
        CASE op.tier = "embedding" -> op.key = "hsai:embedding:" \o Payload(op.text)
          [] op.tier = "search" ->
                op.key = "hsai:search:" \o Payload(op.text) \o "::" \o ToString(op.top_k)
          [] op.tier = "vector" ->
                op.key = "hsai:vector:" \o Payload(op.hash) \o "::" \o ToString(op.top_k)

\* C15: two derivations of the search tier, or two of the vector tier, give
\* the same key exactly when they have the same query text (or vector hash)
\* and the same limit.
C15_LimitSeparatesSlots ==
    (/\ op.name = "key"
     /\ op.prev.name = "key"
     /\ op.tier \in {"search", "vector"}
     /\ op.prev.tier = op.tier) =>
        (op.key = op.prev.key <=>
            /\ op.text = op.prev.text
            /\ op.hash = op.prev.hash
            /\ op.top_k = op.prev.top_k)

\* the same long query asked with two limits, both compound identifiers
\* digested, and the two keys differ
C15_Witness ==
    /\ op.name = "key"
    /\ op.prev.name = "key"
    /\ op.tier = "search"
    /\ op.prev.tier = "search"
    /\ op.text = LongQuery
    /\ op.prev.text = LongQuery
    /\ op.top_k # op.prev.top_k
    /\ op.identifier # op.prev.identifier
    /\ Len(op.identifier) > MAX_RAW_KEY
    /\ op.key # op.prev.key

\* v and w hold the same values, each as often
SameValues(v, w) ==
    /\ Len(v) = Len(w)
    /\ \A x \in {v[i] : i \in 1..Len(v)} \cup {w[i] : i \in 1..Len(w)} :
          Cardinality({i \in 1..Len(v) : v[i] = x}) = Cardinality({i \in 1..Len(w) : w[i] = x})

TierTTL(tier) ==
    CASE tier = "embedding" -> EMBEDDING_TTL
      [] tier = "search" -> SEARCH_TTL
      [] tier = "vector" -> VECTOR_TTL

\* what a tier stores: vectors, product rows, SKU lists
TierType(tier) ==
    CASE tier = "embedding" -> "vector"
      [] tier = "search" -> "products"
      [] tier = "vector" -> "skus"

\* the call reached the server and its command did not fail
Served(o) == o.conn0 /\ o.up /\ ~o.fault

\* C11: in each tier, a get that follows the set of the same payload and
\* limit while the client is connected and the entry has not expired returns
\* the value that was stored; the same get, repeated after a get that found
\* the entry but with the server gone, returns None and raises nothing.
C11_SetThenGet ==
    op.name = "get" =>
        /\ (op.after_set >= 0 /\ op.after_set < TierTTL(op.tier) /\ Served(op))
              => op.result = PyList(ClientValue(op.tier, op.q, op.k))
        /\ (op.after_hit /\ ~(op.conn0 /\ op.up))
              => (op.result = PyNone /\ ~op.escaped)

\* a get that follows a get which found the entry; the server has gone in
\* between and the entry is still stored
C11_Witness ==
    /\ op.name = "get"
    /\ op.after_hit
    /\ op.conn0
    /\ ~op.up
    /\ op.pre # ""
    /\ op.result = PyNone

\* C12: a set stores its entry with the time to live of its tier (3600 s,
\* 1800 s, 900 s); a get made right after the set finds the entry, and a get
\* made once that time has passed returns None without an error.
C12_TierTTL ==
    /\ (op.name = "set" /\ op.ran /\ ~op.fault) =>
            op.stored = [value |-> json_dumps(TierType(op.tier), op.value.val),
                         ttl |-> TierTTL(op.tier)]
    /\ (op.name = "get" /\ op.after_set = 0 /\ Served(op)) =>
            op.result = PyList(ClientValue(op.tier, op.q, op.k))
    /\ (op.name = "get" /\ op.after_set >= TierTTL(op.tier)) =>
            (op.result = PyNone /\ ~op.escaped /\ op.pre = "")

\* a get of the vector tier made exactly 900 s after the set of its key,
\* served by the server
C12_Witness ==
    /\ op.name = "get"
    /\ op.tier = "vector"
    /\ op.after_set = VECTOR_TTL
    /\ Served(op)
    /\ op.result = PyNone

\* the keys the set_* methods of a tier derive
TierKeys(tier) == {ClientKey(tier, r[1], r[2]) : r \in ClientRequests}

\* C13: a clear with a tier name removes keys of that tier only, all of them,
\* and leaves the entries of the other tiers as they were; a clear without a
\* pattern removes every key; no key of one tier is a key of another tier.
C13_ClearIsTierScoped ==
    /\ \A t, u \in Tiers : t # u => TierKeys(t) \cap TierKeys(u) = {}
    /\ (op.name = "clear" /\ op.ran /\ ~op.fault) =>
          /\ op.keptSame
          /\ op.result = PyInt(Cardinality(op.gone))
          /\ IF op.tier = "" THEN op.left = {}
             ELSE /\ op.gone \subseteq TierKeys(op.tier)
                  /\ op.left \cap TierKeys(op.tier) = {}

\* a clear of the embedding tier that removed entries while entries of the
\* search tier and of the vector tier were stored
C13_Witness ==
    /\ op.name = "clear"
    /\ op.tier = "embedding"
    /\ op.ran
    /\ ~op.fault
    /\ op.gone # {}
    /\ op.left \cap TierKeys("search") # {}
    /\ op.left \cap TierKeys("vector") # {}

\* C19: a get whose key holds a value that cannot be deserialized returns
\* None, as for a missing key, lets no exception escape and leaves the entry
\* alone, in every tier.
C19_MalformedIsMiss ==
    (/\ op.name = "get"
     /\ op.ran
     /\ ~op.fault
     /\ op.pre # ""
     /\ json_loads(TierType(op.tier), op.pre).raises)
        => (op.result = PyNone /\ ~op.escaped /\ op.storeSame)

\* a get of the search tier that read a damaged value
C19_Witness ==
    /\ op.name = "get"
    /\ op.tier = "search"
    /\ op.ran
    /\ ~op.fault
    /\ op.pre = Garbage

\* ------------------------------------------------------------------------
\* Properties of the search pipeline's write-back
\* ------------------------------------------------------------------------
\* C18: in each tier, a result computed after a miss while the cache server
\* answers is stored under the key that was looked up, whatever the result,
\* and a lookup that the server answers and that finds an entry under its key
\* is served from it, without recomputation.
C18_MissIsWrittenBack ==
    /\ req.pc \in {"search_in_qdrant", "hydrate"} => req.kept
    /\ (done.query # "none" /\ done.computed) => done.kept
    /\ req.pc \in {"get_embedding", "get_embeddings", "client_search"} => ~req.ignored

\* ------------------------------------------------------------------------
\* The embedding service on its own (services/embeddings.py): whole calls of
\* get_embedding(text) and get_embeddings(texts), the cache server up or
\* down for the length of a call
\* ------------------------------------------------------------------------
EmbedTexts == {"saw", "claw\nhammer"}
Batches == {<<"saw">>, <<"saw", "claw\nhammer">>, <<"claw\nhammer", "saw">>,
            <<"claw\nhammer", "claw\nhammer">>, <<"", "saw">>,
            <<LongQuery>>, <<HexQuery, "saw">>}

\* cleaned_texts
CleanAll(texts) == [i \in 1..Len(texts) |-> Clean(texts[i])]

\* embeddings.py 33-43: one guarded lookup per text, in order; found[i] is
\* what the lookup of text i returned
RECURSIVE LookupAll(_, _, _, _, _)
LookupAll(conn, up, st, cleaned, fault) ==
    IF cleaned = <<>> THEN [found |-> <<>>, connected |-> conn, lost |-> 0]
    ELSE LET g == Guarded(conn, up, st, get_embedding(TRUE, up, st, Head(cleaned), fault))
             rest == LookupAll(g.connected, up, st, Tail(cleaned), fault)
         IN  [found |-> <<g.result>> \o rest.found,
              connected |-> rest.connected,
              lost |-> rest.lost + (IF g.lost THEN 1 ELSE 0)]

\* variant: every text is sent to the provider
texts_to_embed_all(cleaned, found) == cleaned

\* texts_to_embed: the texts whose lookup returned nothing
RECURSIVE texts_to_embed(_, _)
texts_to_embed(cleaned, found) ==
    IF cleaned = <<>> THEN <<>>
    ELSE IF Truthy(Head(found)) THEN texts_to_embed(Tail(cleaned), Tail(found))
    ELSE <<Head(cleaned)>> \o texts_to_embed(Tail(cleaned), Tail(found))

\* embeddings.py 52-58: one guarded set_embedding per new embedding
RECURSIVE StoreAll(_, _, _, _, _)
StoreAll(conn, up, st, sent, fault) ==
    IF sent = <<>> THEN [connected |-> conn, store |-> st, lost |-> 0]
    ELSE LET g == Guarded(conn, up, st,
                          set_embedding(TRUE, up, st, Head(sent), Embed(Head(sent)), fault))
             rest == StoreAll(g.connected, up, g.store, Tail(sent), fault)
         IN  [connected |-> rest.connected, store |-> rest.store,
              lost |-> rest.lost + (IF g.lost THEN 1 ELSE 0)]

\* get_embeddings(texts)
embeddings_get_embeddings(conn, up, st, texts, fault) ==
    LET cleaned == CleanAll(texts)
        l == LookupAll(conn, up, st, cleaned, fault)
        sent == texts_to_embed(cleaned, l.found)
        w == StoreAll(l.connected, up, st, sent, fault)
    IN  [embeddings |-> [i \in 1..Len(texts) |->
                            IF Truthy(l.found[i]) THEN l.found[i].val ELSE Embed(cleaned[i])],
         sent |-> sent,
         connected |-> w.connected, store |-> w.store, lost |-> l.lost + w.lost]

\* embeddings.py 86-92: store what get_embeddings returned under the text
AfterBatch(e, up, text, fault, lost) ==
    LET w == Guarded(e.connected, up, e.store,
                     set_embedding(TRUE, up, e.store, text, e.embeddings[1], fault))
    IN  [embeddings |-> e.embeddings, sent |-> e.sent,
         connected |-> w.connected, store |-> w.store,
         lost |-> e.lost + lost + (IF w.lost THEN 1 ELSE 0)]

\* get_embedding(text)
embeddings_get_embedding(conn, up, st, text, fault) ==
    LET g == Guarded(conn, up, st, get_embedding(TRUE, up, st, text, fault))
    IN  IF Truthy(g.result)
        THEN [embeddings |-> <<g.result.val>>, sent |-> <<>>,
              connected |-> g.connected, store |-> st, lost |-> IF g.lost THEN 1 ELSE 0]
        ELSE AfterBatch(embeddings_get_embeddings(g.connected, up, st, <<text>>, fault),
                        up, text, fault, IF g.lost THEN 1 ELSE 0)

\* what the observer records of a call of the service: the texts, the
\* entries under the keys it looks up first, what went to the provider (sent)
\* and what it returned
Embedded(name, texts, lookups, fault, r) ==
    /\ connected' = r.connected
    /\ store' = r.store
    /\ lost_logged' = lost_logged + r.lost
    /\ op' = [name |-> name, texts |-> texts, conn0 |-> connected, up |-> backend_up,
              fault |-> fault, lookups |-> lookups,
              entries |-> [i \in 1..Len(lookups) |->
                              EntryAt(store, _make_key("embedding", lookups[i])).value],
              sent |-> r.sent, embeddings |-> r.embeddings]
    /\ UNCHANGED <<rlVars, backend_up, req, done>>

EmbedOne(text, fault) ==
    Embedded("get_embedding", <<text>>, <<text>>, fault,
             embeddings_get_embedding(connected, backend_up, store, text, fault))

EmbedMany(texts, fault) ==
    Embedded("get_embeddings", texts, CleanAll(texts), fault,
             embeddings_get_embeddings(connected, backend_up, store, texts, fault))

NextEmbed ==
    \/ \E text \in EmbedTexts, fault \in BOOLEAN : EmbedOne(text, fault)
    \/ \E texts \in Batches, fault \in BOOLEAN : EmbedMany(texts, fault)
    \/ BackendDown
    \/ BackendUp
    \/ \E key \in DOMAIN store : Expire(key)

SpecEmbed == InitClient /\ [][NextEmbed]_vars

\* the lookup of text i of the call was answered and found an entry
FoundCached(o, i) == Served(o) /\ o.entries[i] # ""

\* the texts of s at the positions in keep, in order
RECURSIVE Pick(_, _, _)
Pick(s, keep, i) ==
    IF i > Len(s) THEN <<>>
    ELSE (IF i \in keep THEN <<s[i]>> ELSE <<>>) \o Pick(s, keep, i + 1)

\* C17: when the client is connected and an entry exists for the text,
\* get_embedding returns the cached vector and sends nothing to the provider;
\* get_embeddings sends to the provider exactly the texts whose lookup found
\* no entry, and returns the cached vector for the others.
C17_HitSkipsProvider ==
    /\ (op.name = "get_embedding" /\ FoundCached(op, 1)) =>
            /\ op.sent = <<>>
            /\ PyList(op.embeddings[1]) = json_loads("vector", op.entries[1]).value
    /\ op.name = "get_embeddings" =>
            /\ op.sent = Pick(op.lookups, {i \in 1..Len(op.lookups) : ~FoundCached(op, i)}, 1)
            /\ \A i \in 1..Len(op.lookups) : FoundCached(op, i) =>
                    PyList(op.embeddings[i]) = json_loads("vector", op.entries[i]).value

\* a batch of two texts, one in the cache and one not: one text was sent
C17_Witness ==
    /\ op.name = "get_embeddings"
    /\ Len(op.texts) = 2
    /\ FoundCached(op, 1)
    /\ ~FoundCached(op, 2)
    /\ Served(op)
    /\ Len(op.sent) = 1

\* ------------------------------------------------------------------------
\* The HTTP layer: SecurityMiddleware.dispatch in front of the routes, the
\* auth guards the routes depend on, and the handlers of the security router.
\* One request at a time; every stage of a request reads the same clock value.
\* ------------------------------------------------------------------------
\* the X-API-Key header of a request; "" stands for an absent header
ApiKeys == {"", "admin-key", "user-key", "shared-key", "bad-key"}
\* ADMIN_API_KEYS / USER_API_KEYS (environment): one key is listed in both
admin_keys == {"admin-key", "shared-key"}
user_keys == {"user-key", "shared-key"}

Paths == {"/search", "/security/api-key/validate", "/security/rate-limit/stats",
          "/security/rate-limit/reset", "/security/rate-limit/check",
          "/metrics/reset", "/health/redis"}
HttpSearches == {<<"saw", 1>>}
\* the routes that depend on require_api_key or require_admin_key
GuardedPaths == {"/security/api-key/validate", "/security/rate-limit/stats",
                 "/security/rate-limit/reset"}

verify_admin_key(api_key) == api_key \in admin_keys

\* variant: the user set is looked at first
get_key_type_userfirst(api_key) ==
    IF api_key \in user_keys THEN "user"
    ELSE IF api_key \in admin_keys THEN "admin"
    ELSE "none"

get_key_type(api_key) ==
    IF api_key \in admin_keys THEN "admin"
    ELSE IF api_key \in user_keys THEN "user"
    ELSE "none"

\* a stage of the request that made no rate-limit check
NoCheck == [called |-> FALSE]
NotGuarded == [name |-> "none", status |-> 200, key_type |-> "none", check |-> NoCheck]

\* check_rate_limit: 429 when is_allowed refuses
check_rate_limit(reqs, client_ip, key_type, t) ==
    LET r == is_allowed(reqs, client_ip, key_type, t)
    IN  [requests |-> r.requests,
         status |-> IF r.allowed THEN 200 ELSE 429,
         check |-> [called |-> TRUE, key_type |-> key_type, allowed |-> r.allowed,
                    info |-> r.info, pre |-> Deque(reqs, client_ip)]]

\* require_api_key: status 200 stands for the dependency returning
require_api_key(reqs, client_ip, api_key, t) ==
    IF api_key = ""
    THEN [name |-> "require_api_key", status |-> 401, requests |-> reqs,
          key_type |-> "none", check |-> NoCheck]
    ELSE LET key_type == get_key_type(api_key)
         IN  IF key_type = "none"
             THEN [name |-> "require_api_key", status |-> 401, requests |-> reqs,
                   key_type |-> "none", check |-> NoCheck]
             ELSE LET c == check_rate_limit(reqs, client_ip, key_type, t)
                  IN  [name |-> "require_api_key", status |-> c.status,
                       requests |-> c.requests, key_type |-> key_type, check |-> c.check]

require_admin_key(reqs, client_ip, api_key, t) ==
    IF api_key = ""
    THEN [name |-> "require_admin_key", status |-> 401, requests |-> reqs,
          key_type |-> "none", check |-> NoCheck]
    ELSE IF ~verify_admin_key(api_key)
    THEN [name |-> "require_admin_key", status |-> 403, requests |-> reqs,
          key_type |-> "none", check |-> NoCheck]
    ELSE LET c == check_rate_limit(reqs, client_ip, "admin", t)
         IN  [name |-> "require_admin_key", status |-> c.status,
              requests |-> c.requests, key_type |-> "admin", check |-> c.check]

\* SecurityMiddleware.skip_rate_limiting and the exempt prefixes
skip_rate_limiting == {"/cache/clear", "/reindex", "/metrics/reset"}
should_rate_limit(path) ==
    /\ path \notin skip_rate_limiting
    /\ ~StartsWith(path, "/health")
    /\ ~StartsWith(path, "/docs")
    /\ ~StartsWith(path, "/openapi.json")
    /\ ~StartsWith(path, "/redoc")

\* the dependency FastAPI resolves before the handler of the route
Depends(reqs, client_ip, path, api_key, t) ==
    IF path = "/security/api-key/validate"
    THEN require_api_key(reqs, client_ip, api_key, t)
    ELSE IF path \in {"/security/rate-limit/stats", "/security/rate-limit/reset"}
    THEN require_admin_key(reqs, client_ip, api_key, t)
    ELSE [name |-> "none", status |-> 200, requests |-> reqs,
          key_type |-> "none", check |-> NoCheck]

\* RateLimiter.get_stats: every deque is purged, then counted
get_stats(reqs, t) ==
    LET purged == [k \in DOMAIN reqs |-> PurgeOld(reqs[k], t - WINDOW)]
        active == {k \in DOMAIN purged : purged[k] # <<>>}
    IN  [requests |-> purged,
         body |-> [active_ips |-> Cardinality(active),
                   tracked_ips |-> Cardinality(DOMAIN purged)]]

\* variant: only the caller's own deque is emptied
reset_rate_limits_own(reqs, client_ip) ==
    [requests |-> Put(reqs, client_ip, <<>>),
     body |-> [cleared_ips |-> Cardinality(DOMAIN reqs)]]

\* reset_rate_limits: with the lock held, count the identifiers, clear the table
reset_rate_limits(reqs, client_ip) ==
    [requests |-> <<>>,
     body |-> [cleared_ips |-> Cardinality(DOMAIN reqs)]]

\* deque.pop(): the rightmost timestamp is removed
Pop(q) == SubSeq(q, 1, Len(q) - 1)

\* check_rate_limit_status: is_allowed, then the timestamp it appended is
\* popped again
check_rate_limit_status(reqs, client_ip, t) ==
    LET r == is_allowed(reqs, client_ip, "none", t)
        undo == r.allowed /\ client_ip \in DOMAIN r.requests /\ r.requests[client_ip] # <<>>
    IN  [requests |-> IF undo THEN Put(r.requests, client_ip, Pop(r.requests[client_ip]))
                      ELSE r.requests,
         body |-> [allowed |-> r.allowed, limit |-> r.info.limit,
                   remaining |-> IF undo THEN r.info.remaining + 1 ELSE r.info.remaining,
                   reset |-> r.info.reset]]

\* the handler of the route, for the routes that answer in one step
Handler(reqs, client_ip, path, guard, t) ==
    CASE path = "/security/api-key/validate" ->
            [requests |-> reqs, body |-> [valid |-> TRUE, key_type |-> guard.key_type]]
      [] path = "/security/rate-limit/stats" -> get_stats(reqs, t)
      [] path = "/security/rate-limit/reset" -> reset_rate_limits(reqs, client_ip)
      [] path = "/security/rate-limit/check" -> check_rate_limit_status(reqs, client_ip, t)
      [] OTHER -> [requests |-> reqs, body |-> [status |-> "success"]]

NoBody == [detail |-> "error"]

\* variant: the request is handed on before the rate limit is checked
dispatch_late(reqs, client_ip, path, api_key, t) ==
    LET g == Depends(reqs, client_ip, path, api_key, t)
        ran == g.status = 200
        h == IF ran /\ path # "/search" THEN Handler(g.requests, client_ip, path, g, t)
             ELSE [requests |-> g.requests, body |-> NoBody]
        m == IF should_rate_limit(path) THEN check_rate_limit(h.requests, client_ip, "none", t)
             ELSE [requests |-> h.requests, status |-> 200, check |-> NoCheck]
    IN  [status |-> IF m.status = 429 /\ g.status = 200 THEN 429 ELSE g.status,
         by |-> IF m.status = 429 /\ g.status = 200 THEN "middleware"
                ELSE IF g.status # 200 THEN "guard" ELSE "handler",
         requests |-> m.requests, mw |-> m.check,
         guard |-> [name |-> g.name, status |-> g.status, key_type |-> g.key_type,
                    check |-> g.check],
         handler |-> ran, body |-> h.body, tracked |-> Cardinality(DOMAIN g.requests)]

\* SecurityMiddleware.dispatch: the rate-limit check of the middleware, then
\* call_next (the dependency of the route, then its handler)
dispatch(reqs, client_ip, path, api_key, t) ==
    LET m == IF should_rate_limit(path) THEN check_rate_limit(reqs, client_ip, "none", t)
             ELSE [requests |-> reqs, status |-> 200, check |-> NoCheck]
    IN  IF m.status = 429
        THEN [status |-> 429, by |-> "middleware", requests |-> m.requests, mw |-> m.check,
              guard |-> NotGuarded, handler |-> FALSE, body |-> NoBody, tracked |-> Cardinality(DOMAIN m.requests)]
        ELSE LET g == Depends(m.requests, client_ip, path, api_key, t)
             IN  IF g.status # 200
                 THEN [status |-> g.status, by |-> "guard", requests |-> g.requests,
                       mw |-> m.check,
                       guard |-> [name |-> g.name, status |-> g.status,
                                  key_type |-> g.key_type, check |-> g.check],
                       handler |-> FALSE, body |-> NoBody, tracked |-> Cardinality(DOMAIN g.requests)]
                 ELSE LET h == IF path = "/search"
                               THEN [requests |-> g.requests, body |-> NoBody]
                               ELSE Handler(g.requests, client_ip, path, g, t)
                      IN  [status |-> 200, by |-> "handler", requests |-> h.requests,
                           mw |-> m.check,
                           guard |-> [name |-> g.name, status |-> g.status,
                                      key_type |-> g.key_type, check |-> g.check],
                           handler |-> TRUE, body |-> h.body, tracked |-> Cardinality(DOMAIN g.requests)]

\* each identifier sends the same X-API-Key header with every request; one
\* identifier is the caller with a key, the others send none
Keyed == "10.0.0.1"
\* the identifier whose rate limit is probed
ProbeIp == "10.0.0.1"
InitHttp ==
    /\ InitLimiter
    /\ klass \in [Identifiers -> ApiKeys]
    /\ \A i \in Identifiers \ {Keyed} : klass[i] = ""
    /\ CacheAtRest

\* what an observer of the request records: the response, the stages that
\* ran, and the limiter table and the cache as the request found them;
\* admitted collects the times of the requests to rate-limited paths that
\* were answered 200 since the table was last reset
Answered(client_ip, path, d) ==
    /\ last' = [id |-> client_ip, path |-> path, api_key |-> klass[client_ip], time |-> now,
                status |-> d.status, by |-> d.by, mw |-> d.mw, guard |-> d.guard,
                handler |-> d.handler, body |-> d.body, tracked |-> d.tracked,
                preQueue |-> Deque(requests, client_ip),
                preCount |-> CountIn(admitted[client_ip], now),
                preStore |-> store, preReq |-> req]
    /\ admitted' = IF d.handler /\ path = "/security/rate-limit/reset"
                   THEN [i \in Identifiers |-> <<>>]
                   ELSE [admitted EXCEPT ![client_ip] =
                            IF d.status = 200 /\ should_rate_limit(path)
                            THEN Append(@, now) ELSE @]

\* a request to a route that answers in one step
HttpRequest(client_ip, path) ==
    /\ req.pc = "idle"
    /\ path # "/search"
    /\ LET d == dispatch(requests, client_ip, path, klass[client_ip], now)
       IN  /\ requests' = d.requests
           /\ Answered(client_ip, path, d)
    /\ UNCHANGED <<now, klass, lastReject, solo, lock, threads, cacheVars>>

\* POST /search: the middleware, then the handler is entered
HttpSearch(client_ip, query, top_k) ==
    /\ req.pc = "idle"
    /\ LET d == dispatch(requests, client_ip, "/search", klass[client_ip], now)
       IN  /\ requests' = d.requests
           /\ Answered(client_ip, "/search", d)
           /\ req' = IF d.handler THEN [pc |-> "call_next", query |-> query, top_k |-> top_k]
                     ELSE req
    /\ UNCHANGED <<now, klass, lastReject, solo, lock, threads,
                   connected, backend_up, store, done, op, lost_logged>>

\* the handler of POST /search starts
RouteSearch ==
    /\ req.pc = "call_next"
    /\ search_products(req.query, req.top_k, TRUE, FALSE)

\* the caller with a key uses every route, the other callers probe their rate
\* limit
NextHttp ==
    \/ \E d \in TickSteps : Tick(d)
    \/ \E path \in Paths : HttpRequest(Keyed, path)
    \/ \E client_ip \in Identifiers \ {Keyed} :
            HttpRequest(client_ip, "/security/rate-limit/check")

SpecHttp == InitHttp /\ [][NextHttp]_vars

\* anonymous callers on the routes without a guard, and the search pipeline
\* behind the middleware
InitRoute ==
    /\ InitHttp
    /\ \A i \in Identifiers : klass[i] = ""

NextRoute ==
    \/ \E d \in TickSteps : Tick(d)
    \/ \E client_ip \in Identifiers, path \in Paths \ GuardedPaths :
            HttpRequest(client_ip, path)
    \/ \E client_ip \in Identifiers, r \in HttpSearches : HttpSearch(client_ip, r[1], r[2])
    \/ RouteSearch
    \/ GetEmbedding(TRUE, FALSE)
    \/ GetEmbeddings(TRUE, FALSE)
    \/ Provider(TRUE, FALSE)
    \/ CacheEmbedding(TRUE, FALSE)
    \/ VectorLookup(TRUE, FALSE)
    \/ VectorSearch(TRUE, FALSE)
    \/ Hydrate(TRUE, FALSE)

SpecRoute == InitRoute /\ [][NextRoute]_vars

\* ------------------------------------------------------------------------
\* The rate-limit probe among concurrent requests: the handler
\* check_rate_limit_status calls is_allowed (clock read, lock, with-block),
\* then tests `is_allowed and client_ip in _requests` without the lock, then
\* takes the lock again to pop; other threads call is_allowed for the same
\* identifier and an administrator resets the table
\* ------------------------------------------------------------------------
ProbeEnter(t, client_ip) ==
    /\ threads[t].pc = "idle"
    /\ threads' = [threads EXCEPT ![t] = [pc |-> "probe_wait", identifier |-> client_ip,
                                          key_type |-> "none", current_time |-> now]]
    /\ UNCHANGED <<now, requests, klass, rlObs, lock, cacheVars>>

ProbeAcquire(t) ==
    /\ threads[t].pc \in {"probe_wait", "undo_wait"}
    /\ lock = Free
    /\ lock' = t
    /\ threads' = [threads EXCEPT ![t].pc = IF @ = "probe_wait" THEN "probe_locked"
                                           ELSE "undo_locked"]
    /\ UNCHANGED <<now, requests, klass, rlObs, cacheVars>>

\* security.py 118-148 on behalf of the probe
ProbeCheck(t) ==
    /\ threads[t].pc = "probe_locked"
    /\ lock = t
    /\ LET me == threads[t]
           r == is_allowed(requests, me.identifier, "none", me.current_time)
       IN  /\ requests' = r.requests
           /\ threads' = [threads EXCEPT ![t] = [pc |-> "undo_test", identifier |-> me.identifier,
                                                 key_type |-> "none",
                                                 current_time |-> me.current_time,
                                                 is_allowed |-> r.allowed]]
    /\ lock' = Free
    /\ UNCHANGED <<now, klass, rlObs, cacheVars>>

\* routers/security.py 117
ProbeTest(t) ==
    /\ threads[t].pc = "undo_test"
    /\ threads' = [threads EXCEPT ![t] =
                      IF @.is_allowed /\ @.identifier \in DOMAIN requests
                      THEN [@ EXCEPT !.pc = "undo_wait"]
                      ELSE Idle]
    /\ UNCHANGED <<now, requests, klass, rlObs, lock, cacheVars>>

\* routers/security.py 118-122: _requests[client_ip] creates the deque when
\* the identifier is not tracked
ProbeUndo(t) ==
    /\ threads[t].pc = "undo_locked"
    /\ lock = t
    /\ LET client_ip == threads[t].identifier
           q == Deque(requests, client_ip)
       IN  requests' = Put(requests, client_ip, IF q # <<>> THEN Pop(q) ELSE q)
    /\ lock' = Free
    /\ threads' = [threads EXCEPT ![t] = Idle]
    /\ UNCHANGED <<now, klass, rlObs, cacheVars>>

\* routers/security.py 176-178: the with-block of reset_rate_limits; the
\* history of admitted calls starts afresh
Reset ==
    /\ lock = Free
    /\ requests # <<>>
    /\ requests' = reset_rate_limits(requests, ProbeIp).requests
    /\ admitted' = [i \in Identifiers |-> <<>>]
    /\ UNCHANGED <<now, klass, last, lastReject, solo, lock, threads, cacheVars>>

InitProbe ==
    /\ Init
    /\ \A i \in Identifiers : klass[i] = "none"

NextProbe ==
    \/ \E d \in TickSteps : Tick(d)
    \/ \E t \in Threads : Enter(t, ProbeIp)
    \/ \E t \in Threads : Acquire(t)
    \/ \E t \in Threads : Critical(t)
    \/ \E t \in Threads : ProbeEnter(t, ProbeIp)
    \/ \E t \in Threads : ProbeAcquire(t)
    \/ \E t \in Threads : ProbeCheck(t)
    \/ \E t \in Threads : ProbeTest(t)
    \/ \E t \in Threads : ProbeUndo(t)
    \/ Reset

SpecProbe == InitProbe /\ [][NextProbe]_vars

\* ------------------------------------------------------------------------
\* Properties of the HTTP layer
\* ------------------------------------------------------------------------
\* the request reached the dependency `name` of its route
Reached(name) == last.id # NoCall /\ last.guard.name = name

\* C21: require_api_key accepts a request carrying an admin key (it answers
\* neither 401 nor 403), classifies it as admin, also when the key is listed
\* in both key sets, and checks its rate limit against the admin quota: the
\* limit and the remaining count it reports are those of the admin quota.
C21_AdminKeyAdminQuota ==
    (Reached("require_api_key") /\ last.api_key \in admin_keys) =>
        LET c == last.guard.check
            used == Len(InWindow(c.pre, last.time))
        IN  /\ last.guard.status \notin {401, 403}
            /\ last.guard.key_type = "admin"
            /\ c.called
            /\ c.key_type = "admin"
            /\ c.info.limit = admin_requests_per_minute
            /\ c.allowed <=> used < admin_requests_per_minute
            /\ c.allowed => c.info.remaining = admin_requests_per_minute - used - 1
            /\ last.status = 200 => last.body.key_type = "admin"

\* the key that is listed in both key sets was validated and reported as an
\* admin key
C21_Witness ==
    /\ Reached("require_api_key")
    /\ last.api_key \in admin_keys \cap user_keys
    /\ last.status = 200
    /\ last.body.key_type = "admin"
    /\ last.guard.check.info.limit # user_requests_per_minute

\* the key of the request is valid for the guard of its route
Entitled ==
    \/ get_key_type(last.api_key) = "admin"
    \/ get_key_type(last.api_key) = "user" /\ last.path = "/security/api-key/validate"

\* C22: end to end, a request with a valid key to a guarded, rate-limited
\* route is answered 429 only when the caller's admitted requests of the last
\* 60 seconds have reached the quota of its key class, never by the check
\* against the anonymous quota, and an admitted request adds exactly one
\* timestamp to the caller's window.
C22_KeyQuotaEndToEnd ==
    (/\ last.id # NoCall
     /\ last.path \in GuardedPaths \ {"/security/rate-limit/reset"}
     /\ Entitled) =>
        LET quota == _get_rate_limit(get_key_type(last.api_key))
        IN  /\ last.status = 429 => last.preCount >= quota
            /\ last.status = 429 => last.by # "middleware"
            /\ last.status = 200 =>
                  Len(Deque(requests, last.id)) = Len(InWindow(last.preQueue, last.time)) + 1

\* C23: on a path that is not exempt the middleware checks the caller's
\* identifier against the anonymous quota before anything else runs: a request
\* it rejects is answered 429 with no dependency and no handler run, no search
\* started and the cache as it was; a caller that already has quota admitted
\* requests in the window is rejected. On an exempt path the middleware makes
\* no check and the caller's timestamps stay as they were.
C23_LimitBeforeHandler ==
    last.id # NoCall =>
        IF should_rate_limit(last.path)
        THEN /\ last.mw.called
             /\ last.mw.key_type = "none"
             /\ last.mw.allowed <=>
                    Len(InWindow(last.preQueue, last.time)) < default_requests_per_minute
             /\ last.preCount >= default_requests_per_minute => last.status = 429
             /\ ~last.mw.allowed =>
                    /\ last.status = 429
                    /\ ~last.handler
                    /\ last.guard.name = "none"
                    /\ req = AtRest
                    /\ store = last.preStore
                    /\ Deque(requests, last.id) = InWindow(last.preQueue, last.time)
        ELSE /\ ~last.mw.called
             /\ last.status = 200
             /\ Deque(requests, last.id) = last.preQueue

\* a search is rejected by the middleware while the cache holds the entries of
\* an earlier search of the same caller
C23_Witness ==
    /\ last.id # NoCall
    /\ last.path = "/search"
    /\ last.status = 429
    /\ last.preCount = default_requests_per_minute
    /\ DOMAIN store # {}
    /\ done # NoResponse

\* C24: require_api_key and require_admin_key both answer 401 when the
\* X-API-Key header is absent or names a key of neither key set;
\* require_admin_key answers 403 to a user key that is not an admin key; an
\* admin key passes both guards.
C24_GuardStatus ==
    (last.id # NoCall /\ last.guard.name # "none") =>
        /\ last.api_key \notin admin_keys \cup user_keys => last.guard.status = 401
        /\ (last.guard.name = "require_admin_key" /\ last.api_key \in user_keys \ admin_keys)
              => last.guard.status = 403
        /\ last.api_key \in admin_keys => last.guard.status \notin {401, 403}

\* C25: on a route guarded by require_api_key a request without a key is
\* answered 401, a request whose key is in neither key set is answered 403,
\* and a request with a user or admin key is accepted and told the type of
\* its key.
C25_ValidateStatus ==
    Reached("require_api_key") =>
        /\ last.api_key = "" => last.guard.status = 401
        /\ (last.api_key # "" /\ last.api_key \notin admin_keys \cup user_keys)
              => last.guard.status = 403
        /\ last.api_key \in admin_keys \cup user_keys =>
              /\ last.guard.status \notin {401, 403}
              /\ last.status = 200 =>
                    last.body.key_type = (IF last.api_key \in admin_keys THEN "admin" ELSE "user")

\* C26: a request to a guarded route without a key, or with a key of neither
\* key set, is answered with the authentication error whatever the number of
\* timestamps recorded for its identifier, never with 429, and records no
\* timestamp.
C26_AuthErrorIndependent ==
    (/\ last.id # NoCall
     /\ last.path \in GuardedPaths
     /\ last.api_key \notin admin_keys \cup user_keys) =>
        /\ last.status \in {401, 403}
        /\ InWindow(Deque(requests, last.id), last.time) = InWindow(last.preQueue, last.time)

\* C28: the administrative reset leaves the rate-limit table empty and
\* reports the number of identifiers it tracked just before: right after it
\* no identifier has a timestamp, and the next is_allowed call of any
\* identifier, with any caller class, is admitted with remaining = quota - 1.
C28_ResetEmptiesTable ==
    (last.id # NoCall /\ last.path = "/security/rate-limit/reset" /\ last.handler) =>
        /\ DOMAIN requests = {}
        /\ \A i \in Identifiers : Deque(requests, i) = <<>>
        /\ last.body.cleared_ips = last.tracked
        /\ \A i \in Identifiers, key_type \in KeyTypes :
              LET r == is_allowed(requests, i, key_type, now)
              IN  /\ r.allowed
                  /\ r.info.remaining = _get_rate_limit(key_type) - 1
                  /\ Deque(r.requests, i) = <<now>>

\* a reset that cleared the timestamps of the caller and of another identifier
C28_Witness ==
    /\ last.id # NoCall
    /\ last.path = "/security/rate-limit/reset"
    /\ last.handler
    /\ last.body.cleared_ips = Cardinality(Identifiers)
    /\ last.preQueue # <<>>

\* ------------------------------------------------------------------------
\* Properties of the probe and of the deques under concurrency
\* ------------------------------------------------------------------------
\* how often the timestamp ts occurs in s
Occurs(s, ts) == Cardinality({j \in 1..Len(s) : s[j] = ts})

\* a probe has appended its timestamp and has not returned yet
ProbeInFlight == \E t \in Threads : threads[t].pc \in {"undo_test", "undo_wait", "undo_locked"}

\* C27: the probe does not consume quota: whenever no probe is between its
\* is_allowed call and its return, the probed identifier's in-window
\* timestamps are exactly those of the other admitted requests since the last
\* reset, under every interleaving with is_allowed calls and resets.
C27_ProbeLeavesNoTrace ==
    ~ProbeInFlight =>
        \A ts \in (now - WINDOW)..now :
            Occurs(Deque(requests, ProbeIp), ts) = Occurs(admitted[ProbeIp], ts)

\* the deque is in non-decreasing time order
Ordered(q) == \A j \in 1..(Len(q) - 1) : q[j] <= q[j + 1]

\* thread t returns from is_allowed in this step and leaves no timestamp
\* older than 60 s before the time of its call
PurgedOnReturn(t) ==
    (threads[t].pc = "locked" /\ threads'[t].pc = "idle") =>
        LET q == Deque(requests', threads[t].identifier)
        IN  \A j \in 1..Len(q) : q[j] >= threads[t].current_time - WINDOW

\* C29: every identifier's deque is always in non-decreasing time order, and
\* when an is_allowed call returns the identifier's deque holds no timestamp
\* older than 60 s before the time of that call, also when calls for the same
\* identifier run concurrently.
C29_OrderedAndPurged ==
    /\ [](\A i \in DOMAIN requests : Ordered(requests[i]))
    /\ [][\A t \in Threads : PurgedOnReturn(t)]_vars

\* ------------------------------------------------------------------------
\* Properties of the connection state
\* ------------------------------------------------------------------------
\* C30: "Redis connection lost" is logged exactly once in each step that
\* takes the client from connected to disconnected, and in no other step:
\* the probes and cache operations made while the client is already
\* disconnected log nothing.
C30_LostLoggedOncePerTransition ==
    [][lost_logged' = lost_logged + (IF connected /\ ~connected' THEN 1 ELSE 0)]_vars

\* the warning was logged once, and a cache operation was then made on the
\* disconnected client while the server was still down
C30_Witness ==
    /\ lost_logged = 1
    /\ ~connected
    /\ op.name # "none"
    /\ ~op.conn0
    /\ ~op.up
\* ------------------------------------------------------------------------
\* The cache router (routers/cache_router.py) behind the middleware:
\* DELETE /cache/clear, guarded by admin_guard of utils/auth.py, and
\* GET /cache/stats; the cache server goes down and comes back between the
\* requests, and within a request between its two pings (stays)
\* ------------------------------------------------------------------------
\* the methods class APIKeyAuth defines
APIKeyAuthMethods == {"verify_admin_key", "verify_user_key", "get_key_type"}
\* utils/auth.py 22: the first entry of ADMIN_API_KEYS
API_KEY == "admin-key"

\* utils/auth.py admin_guard: 401 without a key; api_auth.is_admin_key is
\* looked up on an APIKeyAuth, and the AttributeError of a missing method
\* leaves the dependency as an unhandled exception (500)
admin_guard(api_key) ==
    IF api_key = "" THEN [name |-> "admin_guard", status |-> 401]
    ELSE IF "is_admin_key" \notin APIKeyAuthMethods
    THEN [name |-> "admin_guard", status |-> 500]
    ELSE IF verify_admin_key(api_key) THEN [name |-> "admin_guard", status |-> 200]
    ELSE IF api_key = API_KEY THEN [name |-> "admin_guard", status |-> 200]
    ELSE [name |-> "admin_guard", status |-> 403]

\* the fields of CacheClearResponse / CacheStatsResponse an error response
\* does not carry
NoClear == [success |-> FALSE, keys_deleted |-> -1]
NoStats == [connected |-> FALSE, total_keys |-> 0, embedding_cache_keys |-> 0,
            search_cache_keys |-> 0, vector_cache_keys |-> 0, error |-> "detail"]

\* variant: the response is built without validating keys_deleted
clear_cache_route_unvalidated(conn, up, stays, st, pattern, fault) ==
    LET p == is_connected(conn, up)
    IN  IF ~p.ret
        THEN [status |-> 500, body |-> NoClear, raw |-> PyNone,
              connected |-> p.connected, store |-> st, lost |-> p.lost]
        ELSE LET r == clear_cache(TRUE, up /\ stays, st, pattern, fault)
             IN  [status |-> 200,
                  body |-> [success |-> TRUE,
                            keys_deleted |-> IF r.result.py = "int" THEN r.result.val ELSE 0],
                  raw |-> r.result,
                  connected |-> r.connected, store |-> r.store, lost |-> r.lost]

\* cache_router.clear_cache: the HTTPException(503) of a failed ping is raised
\* inside the try block and turned into a 500 by `except Exception`, as is
\* the validation error of CacheClearResponse(keys_deleted=None)
clear_cache_route(conn, up, stays, st, pattern, fault) ==
    LET p == is_connected(conn, up)
    IN  IF ~p.ret
        THEN [status |-> 500, body |-> NoClear, raw |-> PyNone,
              connected |-> p.connected, store |-> st, lost |-> p.lost]
        ELSE LET r == clear_cache(TRUE, up /\ stays, st, pattern, fault)
             IN  IF r.result.py # "int"
                 THEN [status |-> 500, body |-> NoClear, raw |-> r.result,
                       connected |-> r.connected, store |-> r.store, lost |-> r.lost]
                 ELSE [status |-> 200,
                       body |-> [success |-> TRUE, keys_deleted |-> r.result.val],
                       raw |-> r.result,
                       connected |-> r.connected, store |-> r.store, lost |-> r.lost]

\* variant: no try/except around the construction of the response
get_cache_stats_route_unguarded(conn, up, st, fault) ==
    LET r == get_cache_stats(conn, up, st, fault)
    IN  IF r.result.py = "dict"
        THEN [status |-> 200, body |-> [NoStats EXCEPT
                                           !.connected = r.result.val.connected,
                                           !.total_keys = r.result.val.total_keys,
                                           !.embedding_cache_keys = r.result.val.embedding_cache_keys,
                                           !.search_cache_keys = r.result.val.search_cache_keys,
                                           !.vector_cache_keys = r.result.val.vector_cache_keys,
                                           !.error = ""],
              raw |-> r.result,
              connected |-> r.connected, store |-> r.store, lost |-> r.lost]
        ELSE [status |-> 500, body |-> NoStats, raw |-> r.result,
              connected |-> r.connected, store |-> r.store, lost |-> r.lost]

\* cache_router.get_cache_stats: CacheStatsResponse(**stats); with stats None
\* the call raises TypeError and the except branch answers
\* CacheStatsResponse(connected=False, error=str(e))
get_cache_stats_route(conn, up, st, fault) ==
    LET r == get_cache_stats(conn, up, st, fault)
    IN  IF r.result.py = "dict"
        THEN [status |-> 200, body |-> [NoStats EXCEPT
                                           !.connected = r.result.val.connected,
                                           !.total_keys = r.result.val.total_keys,
                                           !.embedding_cache_keys = r.result.val.embedding_cache_keys,
                                           !.search_cache_keys = r.result.val.search_cache_keys,
                                           !.vector_cache_keys = r.result.val.vector_cache_keys,
                                           !.error = ""],
              raw |-> r.result,
              connected |-> r.connected, store |-> r.store, lost |-> r.lost]
        ELSE [status |-> 200,
              body |-> [NoStats EXCEPT !.error = "argument after ** must be a mapping, not NoneType"],
              raw |-> r.result,
              connected |-> r.connected, store |-> r.store, lost |-> r.lost]

\* the handler of a cache route
CacheHandler(path, pattern, stays, fault) ==
    IF path = "/cache/clear"
    THEN clear_cache_route(connected, backend_up, stays, store, pattern, fault)
    ELSE get_cache_stats_route(connected, backend_up, store, fault)

\* what an observer of the request records: the response, the stages that
\* ran, the client and the server as the request found them, and the keys
\* that are gone after it
CacheAnswered(client_ip, path, api_key, pattern, stays, fault, by, m, g, h) ==
    /\ last' = [id |-> client_ip, path |-> path, api_key |-> api_key, pattern |-> pattern,
                time |-> now, status |-> h.status, by |-> by, mw |-> m, guard |-> g,
                handler |-> by \in {"handler", "direct"}, body |-> h.body, raw |-> h.raw,
                conn0 |-> connected, up |-> backend_up, stays |-> stays, fault |-> fault,
                preStore |-> store, storeSame |-> h.store = store,
                gone |-> (DOMAIN store) \ (DOMAIN h.store)]
    /\ connected' = h.connected
    /\ store' = h.store
    /\ lost_logged' = lost_logged + (IF h.lost THEN 1 ELSE 0)

\* a stage that answered before the handler: the cache is left alone
NotHandled(status, body) ==
    [status |-> status, body |-> body, raw |-> PyNone,
     connected |-> connected, store |-> store, lost |-> FALSE]

\* a request to a cache route: SecurityMiddleware.dispatch, the dependency of
\* the route, the handler
CacheRequest(client_ip, path, pattern, stays, fault) ==
    LET api_key == klass[client_ip]
        m == IF should_rate_limit(path) THEN check_rate_limit(requests, client_ip, "none", now)
             ELSE [requests |-> requests, status |-> 200, check |-> NoCheck]
        g == IF path = "/cache/clear" THEN admin_guard(api_key)
             ELSE [name |-> "none", status |-> 200]
        body == IF path = "/cache/clear" THEN NoClear ELSE NoStats
    IN  /\ req.pc = "idle"
        /\ requests' = m.requests
        /\ IF m.status # 200
           THEN CacheAnswered(client_ip, path, api_key, pattern, stays, fault, "middleware",
                              m.check, [name |-> "none", status |-> 200],
                              NotHandled(m.status, body))
           ELSE IF g.status # 200
           THEN CacheAnswered(client_ip, path, api_key, pattern, stays, fault, "guard",
                              m.check, g, NotHandled(g.status, body))
           ELSE CacheAnswered(client_ip, path, api_key, pattern, stays, fault, "handler",
                              m.check, g, CacheHandler(path, pattern, stays, fault))
        /\ UNCHANGED <<now, admitted, klass, lastReject, solo, lock, threads,
                       backend_up, req, done, op>>

\* the handler of DELETE /cache/clear called with its dependency resolved
\* (app.dependency_overrides[admin_guard])
ClearDirect(client_ip, pattern, stays, fault) ==
    /\ req.pc = "idle"
    /\ CacheAnswered(client_ip, "/cache/clear", klass[client_ip], pattern, stays, fault,
                     "direct", NoCheck, [name |-> "override", status |-> 200],
                     clear_cache_route(connected, backend_up, stays, store, pattern, fault))
    /\ UNCHANGED <<now, requests, admitted, klass, lastReject, solo, lock, threads,
                   backend_up, req, done, op>>

\* the X-API-Key headers the administrator's requests carry
CacheKeys == {"", "admin-key", "user-key"}

InitCache ==
    /\ InitLimiter
    /\ klass \in [Identifiers -> CacheKeys]
    /\ \A i \in Identifiers \ {Keyed} : klass[i] = ""
    /\ backend_up \in BOOLEAN
    /\ connected = backend_up
    /\ store = EmptyStore
    /\ req = AtRest
    /\ done = NoResponse
    /\ op = NoOp
    /\ lost_logged = 0

\* the administrator clears the cache while entries are written and the
\* server goes down and comes back
NextCache ==
    \/ \E pattern \in Tiers \cup {""}, stays, fault \in BOOLEAN :
            CacheRequest(Keyed, "/cache/clear", pattern, stays, fault)
    \/ \E pattern \in Tiers \cup {""}, stays, fault \in BOOLEAN :
            ClearDirect(Keyed, pattern, stays, fault)
    \/ \E tier \in Tiers, r \in TimedRequests : ClientSet(tier, r[1], r[2], FALSE)
    \/ BackendDown
    \/ BackendUp

SpecCache == InitCache /\ [][NextCache]_vars

\* callers read the statistics while entries are written and the server goes
\* down and comes back
InitStats ==
    /\ InitCache
    /\ \A i \in Identifiers : klass[i] = ""

NextStats ==
    \/ \E d \in TickSteps : Tick(d)
    \/ \E fault \in BOOLEAN : CacheRequest(Keyed, "/cache/stats", "", TRUE, fault)
    \/ \E tier \in Tiers, r \in TimedRequests : ClientSet(tier, r[1], r[2], FALSE)
    \/ BackendDown
    \/ BackendUp

SpecStats == InitStats /\ [][NextStats]_vars

\* ------------------------------------------------------------------------
\* Properties of the cache router
\* ------------------------------------------------------------------------
\* the request could not be carried out against the cache server: the client
\* was disconnected, a ping failed, or the command raised
NotCarriedOut(o) == ~o.conn0 \/ ~o.up \/ ~o.stays \/ o.fault

\* C31: a DELETE /cache/clear request that cannot be carried out against the
\* backend (client disconnected, a ping fails, or the key listing or the
\* deletion raises) is answered with an error status, never with
\* success=true, and removes no key.
C31_ClearFailureIsError ==
    (last.id # NoCall /\ last.path = "/cache/clear" /\ NotCarriedOut(last)) =>
        /\ last.status >= 400
        /\ ~last.body.success
        /\ last.storeSame

\* the handler ran on a connected client, the server answered both pings and
\* the command raised while keys matched the pattern
C31_Witness ==
    /\ last.id # NoCall
    /\ last.path = "/cache/clear"
    /\ last.handler
    /\ last.conn0
    /\ last.up
    /\ last.stays
    /\ last.fault
    /\ Keys(last.preStore, last.pattern) # {}
    /\ last.status = 500

\* C32: a DELETE /cache/clear request carrying an admin key, with the client
\* connected and the server answering, passes the admin guard, deletes the
\* keys under the requested pattern (every key when no pattern is given) and
\* returns success=true with keys_deleted equal to the number of keys removed.
C32_AdminClearSucceeds ==
    (/\ last.id # NoCall
     /\ last.path = "/cache/clear"
     /\ last.by # "direct"
     /\ last.api_key \in admin_keys
     /\ ~NotCarriedOut(last)) =>
        /\ last.guard.status = 200
        /\ last.status = 200
        /\ last.body.success
        /\ last.gone = Keys(last.preStore, last.pattern)
        /\ last.body.keys_deleted = Cardinality(last.gone)

\* C33: cache statistics never raise: GET /cache/stats answers 200 and
\* changes no entry; when the client is disconnected, the ping fails or the
\* statistics query raises, RedisClient.get_cache_stats returns None without
\* raising and the response is a record with connected=false and an error
\* description; otherwise the record has connected=true and the key counts.
C33_StatsNeverRaise ==
    (last.id # NoCall /\ last.path = "/cache/stats" /\ last.handler) =>
        /\ last.status = 200
        /\ last.storeSame
        /\ IF ~last.conn0 \/ ~last.up \/ last.fault
           THEN /\ last.raw = PyNone
                /\ ~last.body.connected
                /\ last.body.error # ""
           ELSE /\ last.body.connected
                /\ last.body.error = ""
                /\ last.body.total_keys = Cardinality(DOMAIN last.preStore)

\* the statistics query raised on a connected client while entries were
\* stored
C33_Witness ==
    /\ last.id # NoCall
    /\ last.path = "/cache/stats"
    /\ last.handler
    /\ last.conn0
    /\ last.up
    /\ last.fault
    /\ DOMAIN last.preStore # {}
    /\ ~last.body.connected

\* ------------------------------------------------------------------------
\* The API key registry on its own: APIKeyAuth._load_api_keys for the values
\* the environment can give ADMIN_API_KEYS and USER_API_KEYS
\* ------------------------------------------------------------------------
\* an environment variable that is not set
Unset == [set |-> FALSE, val |-> ""]
EnvValues == {"", "admin-key", "user-key", "admin-key,user-key", "user-key, admin-key",
              " shared-key ,", "root-key,,ops-key", "hsai-user-key-change-me"}
KeyEnvs == {Unset} \cup {[set |-> TRUE, val |-> v] : v \in EnvValues}
\* security.py 18-19: the keys used when the lists are not configured
ADMIN_API_KEY == "hsai-admin-key-change-me"
USER_API_KEY == "hsai-user-key-change-me"

\* os.getenv(name, default)
getenv(env, default) == IF env.set THEN env.val ELSE default

\* str.split(","): the pieces between the commas, empty ones included
RECURSIVE split(_, _)
split(str, piece) ==
    IF str = "" THEN <<piece>>
    ELSE IF SubSeq(str, 1, 1) = "," THEN <<piece>> \o split(SubSeq(str, 2, Len(str)), "")
    ELSE split(SubSeq(str, 2, Len(str)), piece \o SubSeq(str, 1, 1))

\* str.strip()
RECURSIVE strip(_)
strip(str) ==
    IF str # "" /\ SubSeq(str, 1, 1) = " " THEN strip(SubSeq(str, 2, Len(str)))
    ELSE IF str # "" /\ SubSeq(str, Len(str), Len(str)) = " "
    THEN strip(SubSeq(str, 1, Len(str) - 1))
    ELSE str

\* {key.strip() for key in keys_env.split(",") if key.strip()}
KeySet(keys_env) ==
    LET pieces == split(keys_env, "")
    IN  {strip(pieces[i]) : i \in {j \in 1..Len(pieces) : strip(pieces[j]) # ""}}

\* _load_api_keys: the two sets are built independently of each other
_load_api_keys(admin_env, user_env) ==
    [admin_keys |-> KeySet(getenv(admin_env, ADMIN_API_KEY)),
     user_keys |-> KeySet(getenv(user_env, USER_API_KEY))]

\* APIKeyAuth() in an environment with these two variables
LoadApiKeys(admin_env, user_env) ==
    LET loaded == _load_api_keys(admin_env, user_env)
    IN  /\ op' = [name |-> "load", admin_env |-> admin_env, user_env |-> user_env,
                  admin_keys |-> loaded.admin_keys, user_keys |-> loaded.user_keys]
        /\ UNCHANGED <<rlVars, connected, backend_up, store, req, done, lost_logged>>

NextRegistry ==
    \E admin_env, user_env \in KeyEnvs : LoadApiKeys(admin_env, user_env)

SpecRegistry == InitClient /\ [][NextRegistry]_vars

\* ------------------------------------------------------------------------
\* Properties of the API key registry
\* ------------------------------------------------------------------------
\* C34: after the API key registry is loaded, the admin key set and the user
\* key set are disjoint, for every configuration of the two key lists.
C34_KeySetsDisjoint ==
    op.name = "load" => op.admin_keys \cap op.user_keys = {}

\* ------------------------------------------------------------------------
\* Properties of the rate-limit table's size
\* ------------------------------------------------------------------------
\* C35: identifiers are evicted lazily: after a statistics call, which visits
\* every entry of the table, no identifier is tracked whose timestamps have
\* all left the 60-second window, so the identifiers it reports as tracked
\* are the active ones.
C35_LazyEviction ==
    (last.id # NoCall /\ last.path = "/security/rate-limit/stats" /\ last.handler) =>
        /\ \A i \in DOMAIN requests : InWindow(requests[i], last.time) # <<>>
        /\ last.body.tracked_ips = last.body.active_ips

\* ------------------------------------------------------------------------
\* Properties of the search pipeline's lookups
\* ------------------------------------------------------------------------
\* C36: when the cache server answers and a vector-tier entry exists for
\* (hash of the vector, k), search_in_qdrant returns the stored SKU list and
\* does not call the vector index, for every stored list, the empty list
\* included.
C36_VectorHitSkipsIndex ==
    /\ req.pc = "client_search" => ~req.ignored
    /\ (req.pc = "hydrate" /\ req.entry # "") => json_dumps("skus", req.skus) = req.entry

\* the stage that may follow each stage of a search request
StageOrder ==
    [idle |-> {"idle", "get_embedding"},
     get_embedding |-> {"search_in_qdrant", "get_embeddings"},
     get_embeddings |-> {"cache_embedding", "provider"},
     provider |-> {"cache_embedding"},
     cache_embedding |-> {"search_in_qdrant"},
     search_in_qdrant |-> {"hydrate", "client_search"},
     client_search |-> {"hydrate"},
     hydrate |-> {"idle"}]

\* one step of a search request
SearchStep ==
    LET key == _make_key("search", cache_key(done'.query, done'.top_k))
        written == _make_key("search", cache_key(req.query, req.top_k))
    IN  /\ req' # req => req'.pc \in StageOrder[req.pc]
        \* a request that is not answered from the full-search tier found no
        \* entry there that the server would have served
        /\ (req.pc = "idle" /\ req'.pc = "get_embedding") => ~req'.ignored
        \* a request answered in its first step is answered from the entry of
        \* its key, and nothing is written
        /\ (req.pc = "idle" /\ req'.pc = "idle" /\ done' # done) =>
              /\ ~done'.computed
              /\ connected /\ backend_up
              /\ PyList(done'.results) = json_loads("products", EntryAt(store, key).value).value
              /\ done'.results # <<>>
              /\ store' = store
        \* the answer computed after a miss: the rows of the SKUs the vector
        \* search gave, written back under the key only when there are rows
        /\ (req.pc = "hydrate" /\ req'.pc = "idle") =>
              /\ done'.computed
              /\ done'.results = get_products_by_skus(req.skus)
              /\ done'.results = <<>> => store' = store
              /\ store' # store =>
                    /\ \A k \in DOMAIN store' : k # written => (k \in DOMAIN store /\ store'[k] = store[k])
                    /\ EntryAt(store', written) =
                          [value |-> json_dumps("products", done'.results), ttl |-> SEARCH_TTL]

\* C37: search_products consults the full-search tier first: on a hit it
\* answers with the cached products in that step, with no call of the
\* embedding stage, the vector search or the relational lookup; on a miss the
\* stages run in the order embedding, vector search, relational lookup, and
\* the full result is written back only when the product list is non-empty.
C37_TierFirstThenStages == [][SearchStep]_vars

\* a search was answered from the full-search tier
C37_Witness ==
    /\ done.query # "none"
    /\ ~done.computed
    /\ done.results # <<>>
    /\ EntryAt(store, _make_key("search", cache_key(done.query, done.top_k))).value # ""

\* ------------------------------------------------------------------------
\* Properties of the embedding service's batches
\* ------------------------------------------------------------------------
\* C38: get_embeddings returns a list as long as its input in which position
\* i holds the embedding of input text i (of the text as it is sent to the
\* provider: newlines replaced, a blank text as one space), for every mix of
\* cache hits and misses, duplicates and blank texts included.
C38_BatchPositions ==
    op.name = "get_embeddings" =>
        /\ Len(op.embeddings) = Len(op.texts)
        /\ \A i \in 1..Len(op.texts) : op.embeddings[i] = Embed(Clean(op.texts[i]))

\* ------------------------------------------------------------------------
\* Properties of a failing command
\* ------------------------------------------------------------------------
\* the latest cache operation pinged the server successfully and its command
\* raised
CommandRaised(o) == o.name # "none" /\ o.conn0 /\ o.up /\ o.fault

\* C39: when the command of a cache operation raises after a successful
\* ping, the operation returns None, lets nothing escape, writes nothing and
\* leaves the connected flag true; the flag goes from true to false only in
\* an operation whose ping failed; and the operation that follows the failed
\* command pings the server again.
C39_FailedCommandKeepsConnection ==
    /\ [](CommandRaised(op) =>
            /\ op.ran
            /\ op.pings = 1
            /\ op.result = PyNone
            /\ ~op.escaped
            /\ op.storeSame
            /\ connected)
    /\ [][(connected /\ ~connected') => (op'.pings = 1 /\ ~op'.up /\ ~op'.ran)]_vars
    /\ [][CommandRaised(op) => (op'.conn0 /\ op'.pings = 1)]_vars

\* a set whose command raised after a successful ping, the client still
\* connected
C39_Witness ==
    /\ op.name = "set"
    /\ op.conn0
    /\ op.up
    /\ op.fault
    /\ op.ran
    /\ op.result = PyNone
    /\ connected
====
